---- MODULE Spec2Model ----
(***************************************************************************)
(* Model of the ecs library of TomNiBe/ECS_Modules: ecs::entity_t,         *)
(* ecs::sparse_array, ecs::registry (src/ecs/README.md, from line 153: the *)
(* text of ecs/ecs.hpp) and ecs::zipper / ecs::indexed_zipper              *)
(* (src/ecs/include/ecs/zipper.hpp).                                       *)
(*                                                                         *)
(* Four specifications share the module:                                   *)
(*   SpecStore  one sparse_array under its public operations;              *)
(*   Spec       the registry: entity lifecycle and component stores;       *)
(*   SpecSys    the registry: add_system / run_systems;                    *)
(*   SpecZip    a zipper or indexed_zipper driven by a range-for loop.     *)
(* size_t is modelled with SizeBits bits, so that entity_t::npos           *)
(* (static_cast<size_t>(-1)) and the wrap of idx + 1 are kept.             *)
(***************************************************************************)
EXTENDS Integers, Sequences, FiniteSets, TLC

\* ------------------------------------------------------------------ bounds
\* Width of std::size_t in the model.
SizeBits == 3
\* Largest ordinary entity index handed to a component operation (npos is
\* handed too).
MaxHandle == 1
\* Largest size of the entity index space (registry::_alive).
MaxEntities == 2
\* Number of kill_entity calls on a live handle in one behaviour.
MaxKills == 2
\* Number of add_system calls in one behaviour.
MaxSystems == 2
\* Number of run_systems calls in one behaviour.
MaxRuns == 2
\* Largest length of a zipped store in an initial state.
MaxLen == 4
\* Number of passes over one zipper.
MaxPasses == 2

\* ------------------------------------------------------------- entity_t
SizeMod == 2 ^ SizeBits
\* entity_t::npos, the index of a default-constructed (invalid) handle.
npos == SizeMod - 1
\* The handle values the environment passes to the operations.
Handles == (0 .. MaxHandle) \cup {npos}

\* ----------------------------------------------------------- sparse_array
\* An empty std::optional<Component>.
nullopt == "nullopt"
\* The component values the environment stores.
Components == {"c1", "c2"}

has_value(slot) == slot # nullopt

\* std::vector::resize(n) with value-initialised (empty) new slots.
resize(d, n) ==
    IF n <= Len(d) THEN SubSeq(d, 1, n)
    ELSE d \o [i \in 1 .. (n - Len(d)) |-> nullopt]

\* sparse_array::size
sa_size(d) == Len(d)

\* sparse_array::operator[] const: the storage after the call, the optional
\* it returns, and whether the returned reference lies outside the storage.
sa_at_const(d, e) ==
    [data |-> d,
     ret  |-> IF e >= Len(d) THEN nullopt ELSE d[e + 1],
     oob  |-> FALSE]

\* sparse_array::operator[] (non-const): resize(idx + 1) is computed in
\* size_t, so idx = npos asks for resize(0); the reference returned is
\* _data[idx] whatever the new size.
sa_at(d, e) ==
    LET g == IF e >= Len(d) THEN resize(d, (e + 1) % SizeMod) ELSE d
    IN  [data |-> g,
         ret  |-> IF e < Len(g) THEN g[e + 1] ELSE nullopt,
         oob  |-> e >= Len(g)]

\* sparse_array::insert_at: slot = c through the reference of operator[].
sa_insert_at(d, e, c) ==
    LET a == sa_at(d, e)
    IN  [data |-> IF a.oob THEN a.data ELSE [a.data EXCEPT ![e + 1] = c],
         ret  |-> c,
         oob  |-> a.oob]

\* sparse_array::emplace_at: slot.emplace(args...) through the same reference.
sa_emplace_at(d, e, c) ==
    LET a == sa_at(d, e)
    IN  [data |-> IF a.oob THEN a.data ELSE [a.data EXCEPT ![e + 1] = c],
         ret  |-> c,
         oob  |-> a.oob]

\* A plausible slip of erase: the slot is removed from the vector instead of
\* being reset.
sa_erase_shrinks(d, e) ==
    [data |-> IF e < Len(d)
              THEN SubSeq(d, 1, e) \o SubSeq(d, e + 2, Len(d))
              ELSE d,
     ret  |-> nullopt,
     oob  |-> FALSE]

\* sparse_array::erase: reset the slot if the index is in range.
sa_erase(d, e) ==
    [data |-> IF e < Len(d) THEN [d EXCEPT ![e + 1] = nullopt] ELSE d,
     ret  |-> nullopt,
     oob  |-> FALSE]

\* --------------------------------------------------------------- registry
\* The component types the callers use (the keys of registry::_components).
CompTypes == {"Position", "Velocity"}
\* The component value the callers of the registry store.
RegComponents == {"c1"}
\* The handles passed to kill_entity: every index a spawn can return, one
\* past them, and the invalid handle.
KillHandles == (0 .. MaxEntities) \cup {npos}

\* std::vector<bool>::resize(n, true)
resize_alive(alive, n) ==
    IF n <= Len(alive) THEN SubSeq(alive, 1, n)
    ELSE alive \o [i \in 1 .. (n - Len(alive)) |-> TRUE]

\* A plausible slip of spawn_entity: the free list is used as a queue.
spawn_entity_fifo(alive, free) ==
    IF free # <<>>
    THEN LET id == free[1]
         IN  [alive |-> IF id >= Len(alive)
                        THEN resize_alive(alive, (id + 1) % SizeMod)
                        ELSE [alive EXCEPT ![id + 1] = TRUE],
              free  |-> Tail(free),
              ret   |-> id]
    ELSE [alive |-> Append(alive, TRUE), free |-> free, ret |-> Len(alive)]

\* A plausible slip of spawn_entity: a reused index is not marked alive.
spawn_entity_no_flag(alive, free) ==
    IF free # <<>>
    THEN [alive |-> alive,
          free  |-> SubSeq(free, 1, Len(free) - 1),
          ret   |-> free[Len(free)]]
    ELSE [alive |-> Append(alive, TRUE), free |-> free, ret |-> Len(alive)]

\* registry::spawn_entity: the vectors after the call and the index returned.
spawn_entity(alive, free) ==
    IF free # <<>>
    THEN LET id == free[Len(free)]
         IN  [alive |-> IF id >= Len(alive)
                        THEN resize_alive(alive, (id + 1) % SizeMod)
                        ELSE [alive EXCEPT ![id + 1] = TRUE],
              free  |-> SubSeq(free, 1, Len(free) - 1),
              ret   |-> id]
    ELSE [alive |-> Append(alive, TRUE), free |-> free, ret |-> Len(alive)]

\* The eraser registered for component type t (the lambda of
\* register_component): get_components<t>().erase(ent).
eraser(comps, t, e) == [comps EXCEPT ![t] = sa_erase(comps[t], e).data]

\* The loop of kill_entity over _erasers, from the k-th eraser on.
RECURSIVE run_erasers(_, _, _, _)
run_erasers(comps, erasers, k, e) ==
    IF k > Len(erasers) THEN comps
    ELSE run_erasers(eraser(comps, erasers[k], e), erasers, k + 1, e)

\* A plausible slip of kill_entity: no test of the alive flag, so a dead
\* index in range is freed a second time.
kill_entity_no_alive_test(alive, free, comps, erasers, e) ==
    IF e >= Len(alive)
    THEN [alive |-> alive, free |-> free, comps |-> comps]
    ELSE [alive |-> [alive EXCEPT ![e + 1] = FALSE],
          free  |-> Append(free, e),
          comps |-> run_erasers(comps, erasers, 1, e)]

\* A plausible slip of kill_entity: only the first registered eraser runs.
kill_entity_first_eraser(alive, free, comps, erasers, e) ==
    IF e >= Len(alive) \/ ~alive[e + 1]
    THEN [alive |-> alive, free |-> free, comps |-> comps]
    ELSE [alive |-> [alive EXCEPT ![e + 1] = FALSE],
          free  |-> Append(free, e),
          comps |-> IF erasers = <<>> THEN comps
                    ELSE eraser(comps, erasers[1], e)]

\* A plausible slip of kill_entity: the guard runs after the index is freed.
kill_entity_late_guard(alive, free, comps, erasers, e) ==
    IF e >= Len(alive)
    THEN [alive |-> alive, free |-> free, comps |-> comps]
    ELSE IF ~alive[e + 1]
    THEN [alive |-> alive, free |-> Append(free, e), comps |-> comps]
    ELSE [alive |-> [alive EXCEPT ![e + 1] = FALSE],
          free  |-> Append(free, e),
          comps |-> run_erasers(comps, erasers, 1, e)]

\* registry::kill_entity
kill_entity(alive, free, comps, erasers, e) ==
    IF e >= Len(alive) \/ ~alive[e + 1]
    THEN [alive |-> alive, free |-> free, comps |-> comps]
    ELSE [alive |-> [alive EXCEPT ![e + 1] = FALSE],
          free  |-> Append(free, e),
          comps |-> run_erasers(comps, erasers, 1, e)]

\* registry::register_component<t>: an empty store and its eraser the first
\* time, nothing afterwards.
register_component(comps, erasers, t) ==
    IF t \notin DOMAIN comps
    THEN [comps |-> comps @@ (t :> <<>>), erasers |-> Append(erasers, t)]
    ELSE [comps |-> comps, erasers |-> erasers]

\* registry::get_components<t> (non-const): registers the type if needed.
get_components(comps, erasers, t) == register_component(comps, erasers, t)

\* registry::add_component<t>(e, c): insert_at on the store of t.
add_component(comps, erasers, t, e, c) ==
    LET g == get_components(comps, erasers, t)
        r == sa_insert_at(g.comps[t], e, c)
    IN  [comps |-> [g.comps EXCEPT ![t] = r.data], erasers |-> g.erasers,
         oob |-> r.oob]

\* registry::emplace_component<t>(e, args...): emplace_at on the store of t.
emplace_component(comps, erasers, t, e, c) ==
    LET g == get_components(comps, erasers, t)
        r == sa_emplace_at(g.comps[t], e, c)
    IN  [comps |-> [g.comps EXCEPT ![t] = r.data], erasers |-> g.erasers,
         oob |-> r.oob]

\* registry::remove_component<t>(e): erase on the store of t.
remove_component(comps, erasers, t, e) ==
    LET g == get_components(comps, erasers, t)
        r == sa_erase(g.comps[t], e)
    IN  [comps |-> [g.comps EXCEPT ![t] = r.data], erasers |-> g.erasers,
         oob |-> r.oob]

\* The closures the callers register as systems.
SystemIds == {"sysA", "sysB"}

\* registry::add_system: _systems.emplace_back(wrapper of f).
add_system(systems, f) == Append(systems, f)

\* A plausible slip of run_systems: the list is walked from the back.
run_systems_sys_reverse(systems, i) == systems[Len(systems) + 1 - i]

\* run_systems: the closure the range-for loop invokes at position i.
run_systems_sys(systems, i) == systems[i]

\* run_systems: whether the loop at position i has reached _systems.end().
run_systems_at_end(systems, i) == i > Len(systems)

\* ----------------------------------------------------------------- zipper
\* zipper::max_size: the fold of std::max over the sizes, from 0.
RECURSIVE max_size_from(_, _, _)
max_size_from(arrays, k, max) ==
    IF k > Len(arrays) THEN max
    ELSE max_size_from(arrays, k + 1,
                       IF sa_size(arrays[k]) > max THEN sa_size(arrays[k])
                       ELSE max)
max_size(arrays) == max_size_from(arrays, 1, 0)

\* A plausible slip of all_present: only the bound of each array is tested.
all_present_bounds_only(arrays, index) ==
    \A k \in 1 .. Len(arrays) : ~(index >= sa_size(arrays[k]))

\* zipper::iterator::all_present: ok stays true unless some array is too
\* short for the index or holds an empty optional there.
all_present(arrays, index) ==
    \A k \in 1 .. Len(arrays) :
        ~(index >= sa_size(arrays[k]) \/ ~has_value(arrays[k][index + 1]))

\* A plausible slip of skip_invalid: the index is advanced before the test.
RECURSIVE skip_invalid_advances_first(_, _, _)
skip_invalid_advances_first(arrays, index, max) ==
    IF index < max
    THEN IF index + 1 < max /\ all_present(arrays, index + 1) THEN index + 1
         ELSE skip_invalid_advances_first(arrays, index + 1, max)
    ELSE index

\* zipper::iterator::skip_invalid: the value of _index when the loop ends.
RECURSIVE skip_invalid(_, _, _)
skip_invalid(arrays, index, max) ==
    IF index < max
    THEN IF all_present(arrays, index) THEN index
         ELSE skip_invalid(arrays, index + 1, max)
    ELSE index

\* indexed_zipper::iterator::all_present
ix_all_present(arrays, index) ==
    \A k \in 1 .. Len(arrays) :
        ~(index >= sa_size(arrays[k]) \/ ~has_value(arrays[k][index + 1]))

\* indexed_zipper::iterator::skip_invalid
RECURSIVE ix_skip_invalid(_, _, _)
ix_skip_invalid(arrays, index, max) ==
    IF index < max
    THEN IF ix_all_present(arrays, index) THEN index
         ELSE ix_skip_invalid(arrays, index + 1, max)
    ELSE index

\* The iterator constructors: _index after the skip_invalid they end with.
iterator(kind, index, max, arrays) ==
    IF kind = "zipper" THEN skip_invalid(arrays, index, max)
    ELSE ix_skip_invalid(arrays, index, max)

\* zipper::begin / indexed_zipper::begin
zip_begin(kind, max, arrays) == iterator(kind, 0, max, arrays)

\* zipper::end / indexed_zipper::end
zip_end(kind, max, arrays) == iterator(kind, max, max, arrays)

\* iterator::operator++ (pre-increment): ++_index, then skip_invalid.
increment(kind, index, max, arrays) ==
    IF kind = "zipper" THEN skip_invalid(arrays, (index + 1) % SizeMod, max)
    ELSE ix_skip_invalid(arrays, (index + 1) % SizeMod, max)

\* iterator::operator!=
not_equal(lhs_index, rhs_index) == ~(lhs_index = rhs_index)

\* iterator::deref: (*arr)[ent].value() on each array, through the non-const
\* operator[]; value() of an empty optional throws bad_optional_access. The
\* arrays after the accesses, the tuple built, and whether value() threw.
deref(kind, arrays, index) ==
    LET acc == [k \in 1 .. Len(arrays) |-> sa_at(arrays[k], index)]
    IN  [arrays |-> [k \in 1 .. Len(arrays) |-> acc[k].data],
         tuple  |-> [index |-> index,
                     with_index |-> kind = "indexed_zipper",
                     vals |-> [k \in 1 .. Len(arrays) |-> acc[k].ret]],
         threw  |-> \E k \in 1 .. Len(arrays) : ~has_value(acc[k].ret),
         oob    |-> \E k \in 1 .. Len(arrays) : acc[k].oob]

VARIABLES
    _data,        \* sparse_array::_data of the store under SpecStore
    sa_op,        \* the last sparse_array call: [op, arg, ret]
    ub,           \* an out-of-bounds reference was used and the process died
    _alive,       \* registry::_alive
    _free_ids,    \* registry::_free_ids
    _components,  \* registry::_components: registered type -> its store
    _erasers,     \* registry::_erasers: the types, in registration order
    reg_op,       \* the last registry call: [op, arg, ret]
    handles,      \* history: the handles spawned and not killed since
    freed,        \* history: the indices freed and not reused, oldest first
    spawns,       \* history: number of spawn_entity calls
    kills,        \* history: number of kill_entity calls on a live handle
    _systems,     \* registry::_systems: the registered closures, in order
    run_i,        \* run_systems: 0 when not running, else the position of
                  \* the range-for loop in _systems
    call_log,     \* history: the closures invoked by the current or last run
    prev_log,     \* history: the closures invoked by the run before it
    runs,         \* history: number of run_systems calls
    registered,   \* history: the closures passed to add_system, in call order
    z_arrays,     \* the sparse arrays a zipper was built on
    z_kind,       \* "zipper" or "indexed_zipper"
    z_max_size,   \* zipper::_max_size
    it_index,     \* iterator::_index of the loop's iterator
    z_pc,         \* position of the range-for loop over the zipper
    yielded,      \* history: what the current or last pass dereferenced
    prev_yielded, \* history: what the pass before it dereferenced
    passes,       \* history: number of begin() calls
    m_config,     \* Engine::m_config: the GameConfig the engine was built on
    m_registry,   \* Engine::m_registry: [alive, free, ent], ent the component
                  \* slots of each entity index
    m_dt,         \* Engine::m_dt
    updates,      \* history: number of Engine::update calls
    before,       \* history: m_registry when the last update was called
    trace,        \* history: what the last update did: [log, hits, shots,
                  \* heap]
    spawn_op,     \* the last Engine::spawn call: [name, ret, raised]
    m_impl,       \* World::m_impl: [generations, alive, soa, freeIds, eventQueue]
    world_op,     \* the last World call: [op, name, arg, ret]
    impl_before,  \* history: m_impl when the last World call was made
    issued,       \* history: the handles spawnImmediate has returned
    destroyed,    \* history: the handles destroyImmediate was given while alive
    world_calls,  \* history: number of World calls made
    _clients,     \* Server::_clients
    _onNewClient, \* Server::_onNewClient is set
    _onInput,     \* Server::_onInput is set
    net_op,       \* the last Server call: what it was given and did
    clients_before, \* history: _clients when the last Server call was made
    served,       \* history: <<sender, slot, inputSequence>> of the packets taken
    last_sent,    \* history: per slot, the snapshotId last sent, or -1
    net_calls,    \* history: number of Server calls made
    shot,         \* the WeaponRef whose fire button is released
    cooling       \* history: per entity index, [rate, since, gap, fired] of its weapon

storeVars == <<_data, sa_op>>
regVars == <<_alive, _free_ids, _components, _erasers, reg_op, handles, freed,
             spawns, kills>>
sysVars == <<_systems, run_i, call_log, prev_log, runs, registered>>
zipVars == <<z_arrays, z_kind, z_max_size, it_index, z_pc, yielded,
             prev_yielded, passes>>
worldVars == <<m_impl, world_op, impl_before, issued, destroyed, world_calls>>
netVars == <<_clients, _onNewClient, _onInput, net_op, clients_before, served, last_sent, net_calls>>
chargeVars == <<shot>>
coolVars == <<cooling>>
engVars == <<m_config, m_registry, m_dt, updates, before, trace, spawn_op>>
vars == <<_data, sa_op, ub, _alive, _free_ids, _components, _erasers, reg_op,
          handles, freed, spawns, kills, _systems, run_i, call_log, prev_log,
          runs, registered, z_arrays, z_kind, z_max_size, it_index, z_pc, yielded,
          prev_yielded, passes, m_config, m_registry, m_dt, updates, before,
          trace, spawn_op,
          m_impl, world_op, impl_before, issued, destroyed, world_calls,
          _clients, _onNewClient, _onInput, net_op, clients_before, served, last_sent, net_calls,
          shot,
          cooling>>

\* ------------------------------------------------------------ World state
\* World::m_maxEntities, the size of the index space given to the
\* constructor.
m_maxEntities == 2
\* Width in bits of an entry of Impl::generations (std::uint32_t in the
\* code).
GenBits == 1
\* The number of World calls followed.
MaxWorldCalls == 6

\* The id of a default-constructed Entity: a value above every index.
NoId == 2147483647
\* Entity{}: the invalid handle.
InvalidEntity == [id |-> NoId, generation |-> 0]
\* Entity::isValid.
isValid(e) == e.id # NoId

\* The SoA slots of one index as the constructor fills them.
NewSlot ==
    [frozen |-> FALSE, respawnable |-> FALSE,
     posX |-> 0, posY |-> 0, hasPosition |-> FALSE,
     velX |-> 0, velY |-> 0, hasVelocity |-> FALSE,
     lookX |-> 1, lookY |-> 0, hasLook |-> FALSE,
     health |-> 0, hasHealth |-> FALSE, hasCollision |-> FALSE,
     archetypeIndex |-> 0 - 1, hasArchetype |-> FALSE,
     weaponIndex |-> 0 - 1, hasWeapon |-> FALSE, fireCooldown |-> 0,
     lifetime |-> 0, hasLifetime |-> FALSE,
     isProjectile |-> FALSE, projectileIndex |-> 0 - 1,
     projectileOwner |-> InvalidEntity, projectileDamage |-> 0,
     targetPriorities |-> <<>>, inputFire |-> FALSE]

\* World::Impl after World::World: every generation 0, nothing alive, the
\* free ids pushed from the highest down so that id 0 is handed out first,
\* both queues empty.
NewImpl ==
    [generations |-> [id \in 0 .. m_maxEntities - 1 |-> 0],
     alive       |-> [id \in 0 .. m_maxEntities - 1 |-> FALSE],
     soa         |-> [id \in 0 .. m_maxEntities - 1 |-> NewSlot],
     freeIds     |-> [k \in 1 .. m_maxEntities |-> m_maxEntities - k],
     eventQueue  |-> <<>>]

NoWorldOp ==
    [op |-> "none", name |-> "", arg |-> InvalidEntity, ret |-> InvalidEntity]
\* A World just constructed, nothing called on it.
WorldIdle ==
    /\ m_impl = NewImpl
    /\ world_op = NoWorldOp
    /\ impl_before = NewImpl
    /\ issued = {}
    /\ destroyed = {}
    /\ world_calls = 0

\* -------------------------------------------------------- net::Server state
MAX_DEFAULT_CLIENTS == 4
MAX_ENTITIES == 512
PROTOCOL_VERSION == 1
\* 0x49505431 and 0x534E5031.
INPUT_MAGIC == 1229999153
SNAP_MAGIC == 1397641265
\* sizeof(InputPacket), packed.
InputPacketSize == 28
\* Width in bits of ClientSlot::snapshotCounter (std::uint32_t in the code).
SnapBits == 1
\* The number of Server calls followed.
MaxNetCalls == 6

\* sockaddr_in{}: the address of a slot never bound.
NoAddr == [s_addr |-> 0, sin_port |-> 0]
\* ClientSlot{}.
NewSlotOfClient ==
    [active |-> FALSE, addr |-> NoAddr, lastReceivedInput |-> 0,
     lastProcessedInput |-> 0, snapshotCounter |-> 0]
\* Server::_clients after construction, indexed by slot.
NewClients == [i \in 0 .. MAX_DEFAULT_CLIENTS - 1 |-> NewSlotOfClient]
\* No datagram sent by the last call.
NoHeader ==
    [snapshotId |-> 0, controlledId |-> 0, lastProcessedInput |-> 0,
     serverFrame |-> 0, entityCount |-> 0]
\* recvfrom found nothing to read.
NoDatagram ==
    [n |-> 0, sender |-> NoAddr, magic |-> 0, protocolVersion |-> 0,
     inputSequence |-> 0]
NoNetOp ==
    [op |-> "none", slot |-> MAX_DEFAULT_CLIENTS, dgram |-> NoDatagram,
     newClient |-> FALSE, input |-> FALSE, sent |-> FALSE, header |-> NoHeader,
     prevId |-> 0 - 1]
\* A Server just constructed, no callback set, nothing received or sent.
NetIdle ==
    /\ _clients = NewClients
    /\ _onNewClient = FALSE
    /\ _onInput = FALSE
    /\ net_op = NoNetOp
    /\ clients_before = NewClients
    /\ served = {}
    /\ last_sent = [i \in 0 .. MAX_DEFAULT_CLIENTS - 1 |-> 0 - 1]
    /\ net_calls = 0

\* ---------------------------------------------------------------------------
\* The charge of one weapon at the moment its fire button is released.
\* ---------------------------------------------------------------------------

\* Bounds of the charge specifications explored.
MaxThresholds == 3
MaxChargeTime == 3

\* A WeaponRef about to fire: its weapon's ChargeSpec, the charge time it has
\* accumulated, and the level the weapon system last stored in it.
NoShot == [charge |-> [maxTime |-> 0, thresholds |-> <<>>, levels |-> <<>>], chargeTimeAccum |-> 0, chargeLevel |-> 0, fired |-> FALSE]

ChargeIdle == shot = NoShot

\* ---------------------------------------------------------------------------
\* The firing history of the armed entities, kept across updates.
\* ---------------------------------------------------------------------------

\* Number of updates explored when firing is followed over time.
MaxTicks == 4

\* No armed entity is followed.
CoolIdle == cooling = <<>>

NoOp == [op |-> "none", arg |-> 0, ret |-> nullopt]
RegNoOp == [op |-> "none", arg |-> 0, ret |-> 0]

\* The registry right after construction.
RegInit ==
    /\ _alive = <<>>
    /\ _free_ids = <<>>
    /\ _components = [t \in {} |-> <<>>]
    /\ _erasers = <<>>
    /\ reg_op = RegNoOp
    /\ handles = {}
    /\ freed = <<>>
    /\ spawns = 0
    /\ kills = 0

\* No system registered, no run started.
SysInit ==
    /\ _systems = <<>>
    /\ run_i = 0
    /\ call_log = <<>>
    /\ prev_log = <<>>
    /\ runs = 0
    /\ registered = <<>>

\* No engine built.
NoTrace == [log |-> <<>>, hits |-> <<>>, shots |-> <<>>, heap |-> <<>>]
EmptyRegistry == [alive |-> <<>>, free |-> <<>>, ent |-> <<>>]
\* No Engine::spawn call yet; ret is also what a call that raised returns.
NoSpawn == [name |-> "", ret |-> 0 - 1, raised |-> "none"]
EngIdle ==
    /\ m_config = "none"
    /\ m_registry = EmptyRegistry
    /\ m_dt = 0
    /\ updates = 0
    /\ before = EmptyRegistry
    /\ trace = NoTrace
    /\ spawn_op = NoSpawn
    /\ CoolIdle
    /\ ChargeIdle
    /\ NetIdle
    /\ WorldIdle

\* No zipper built.
ZipIdle ==
    /\ z_arrays = <<>>
    /\ z_kind = "none"
    /\ z_max_size = 0
    /\ it_index = 0
    /\ z_pc = "none"
    /\ yielded = <<>>
    /\ prev_yielded = <<>>
    /\ passes = 0

\* --------------------------------------------------------------- SpecStore
StoreInit ==
    /\ _data = <<>>
    /\ sa_op = NoOp
    /\ ub = FALSE
    /\ RegInit
    /\ SysInit
    /\ ZipIdle
    /\ EngIdle

\* What follows a call that used a reference outside the storage: undefined
\* behaviour, which either kills the process or lets it go on.
UbOutcome(oob) == IF oob THEN ub' \in BOOLEAN ELSE ub' = ub

StoreRead(e) ==
    /\ ~ub
    /\ LET r == sa_at_const(_data, e)
       IN  /\ _data' = r.data
           /\ sa_op' = [op |-> "read", arg |-> e, ret |-> r.ret]
           /\ UbOutcome(r.oob)
           /\ UNCHANGED <<worldVars, netVars, chargeVars, coolVars, engVars, regVars, sysVars, zipVars>>

StoreWrite(e) ==
    /\ ~ub
    /\ LET r == sa_at(_data, e)
       IN  /\ _data' = r.data
           /\ sa_op' = [op |-> "write", arg |-> e, ret |-> r.ret]
           /\ UbOutcome(r.oob)
           /\ UNCHANGED <<worldVars, netVars, chargeVars, coolVars, engVars, regVars, sysVars, zipVars>>

StoreInsertAt(e, c) ==
    /\ ~ub
    /\ LET r == sa_insert_at(_data, e, c)
       IN  /\ _data' = r.data
           /\ sa_op' = [op |-> "insert_at", arg |-> e, ret |-> r.ret]
           /\ UbOutcome(r.oob)
           /\ UNCHANGED <<worldVars, netVars, chargeVars, coolVars, engVars, regVars, sysVars, zipVars>>

StoreEmplaceAt(e, c) ==
    /\ ~ub
    /\ LET r == sa_emplace_at(_data, e, c)
       IN  /\ _data' = r.data
           /\ sa_op' = [op |-> "emplace_at", arg |-> e, ret |-> r.ret]
           /\ UbOutcome(r.oob)
           /\ UNCHANGED <<worldVars, netVars, chargeVars, coolVars, engVars, regVars, sysVars, zipVars>>

StoreErase(e) ==
    /\ ~ub
    /\ LET r == sa_erase(_data, e)
       IN  /\ _data' = r.data
           /\ sa_op' = [op |-> "erase", arg |-> e, ret |-> r.ret]
           /\ UbOutcome(r.oob)
           /\ UNCHANGED <<worldVars, netVars, chargeVars, coolVars, engVars, regVars, sysVars, zipVars>>

StoreNext ==
    \/ \E e \in Handles : StoreRead(e)
    \/ \E e \in Handles : StoreWrite(e)
    \/ \E e \in Handles, c \in Components : StoreInsertAt(e, c)
    \/ \E e \in Handles, c \in Components : StoreEmplaceAt(e, c)
    \/ \E e \in Handles : StoreErase(e)

SpecStore == StoreInit /\ [][StoreNext]_vars

\* C9: a const read at an index at or past the current length returns an
\* empty optional and leaves the length as it was; erase at an index in range
\* resets that slot only and keeps the length; erase at an index out of range
\* changes nothing.
C9_ReadEraseFrame ==
    [][ /\ (sa_op'.op = "read" /\ sa_op'.arg >= Len(_data))
            => (sa_op'.ret = nullopt /\ Len(_data') = Len(_data))
        /\ (sa_op'.op = "erase" /\ sa_op'.arg < Len(_data))
            => /\ Len(_data') = Len(_data)
               /\ _data'[sa_op'.arg + 1] = nullopt
               /\ \A i \in 1 .. Len(_data) :
                      i # sa_op'.arg + 1 => _data'[i] = _data[i]
        /\ (sa_op'.op = "erase" /\ sa_op'.arg >= Len(_data))
            => _data' = _data
      ]_vars

\* C9 witness: an erase in range has acted on a store that still holds
\* another component behind the erased slot.
C9_Witness ==
    /\ sa_op.op = "erase"
    /\ sa_op.arg + 1 < Len(_data)
    /\ _data[sa_op.arg + 1] = nullopt
    /\ has_value(_data[Len(_data)])

\* C10: the length of the backing sequence never decreases, whatever the
\* operation and the handle (the default, invalid handle included).
C10_LengthMonotone == [][Len(_data') >= Len(_data)]_vars

\* -------------------------------------------------------------------- Spec
\* The number of component stores that hold a value at index e.
held(comps, e) ==
    Cardinality({t \in DOMAIN comps : has_value(sa_at_const(comps[t], e).ret)})

\* freed without its last occurrence of id.
RECURSIVE drop_last(_, _)
drop_last(q, id) ==
    IF q = <<>> THEN q
    ELSE IF q[Len(q)] = id THEN SubSeq(q, 1, Len(q) - 1)
    ELSE Append(drop_last(SubSeq(q, 1, Len(q) - 1), id), q[Len(q)])

SpawnEntity ==
    /\ ~ub
    /\ (_free_ids # <<>> \/ Len(_alive) < MaxEntities)
    /\ LET r == spawn_entity(_alive, _free_ids)
       IN  /\ _alive' = r.alive
           /\ _free_ids' = r.free
           /\ reg_op' = [op |-> "spawn_entity", arg |-> 0, ret |-> r.ret]
           /\ handles' = handles \cup {r.ret}
           /\ freed' = drop_last(freed, r.ret)
    /\ spawns' = spawns + 1
    /\ UNCHANGED <<worldVars, netVars, chargeVars, coolVars, engVars, _components, _erasers, kills, ub, storeVars, sysVars,
                   zipVars>>

\* kill_entity(e); reg_op.ret is the number of stores that held a component
\* of e when e was a live handle, and -1 when it was not.
KillEntity(e) ==
    /\ ~ub
    /\ (e \in handles => kills < MaxKills)
    /\ LET r == kill_entity(_alive, _free_ids, _components, _erasers, e)
       IN  /\ _alive' = r.alive
           /\ _free_ids' = r.free
           /\ _components' = r.comps
    /\ reg_op' = [op |-> "kill_entity", arg |-> e,
                  ret |-> IF e \in handles THEN held(_components, e) ELSE -1]
    /\ handles' = handles \ {e}
    /\ freed' = IF e \in handles THEN Append(freed, e) ELSE freed
    /\ kills' = IF e \in handles THEN kills + 1 ELSE kills
    /\ UNCHANGED <<worldVars, netVars, chargeVars, coolVars, engVars, _erasers, spawns, ub, storeVars, sysVars,
                   zipVars>>

ComponentOp == [op |-> "component", arg |-> 0, ret |-> 0]

RegisterComponent(t) ==
    /\ ~ub
    /\ LET r == register_component(_components, _erasers, t)
       IN  /\ _components' = r.comps
           /\ _erasers' = r.erasers
    /\ reg_op' = ComponentOp
    /\ UNCHANGED <<worldVars, netVars, chargeVars, coolVars, engVars, _alive, _free_ids, handles, freed, spawns, kills, ub, storeVars, sysVars,
                   zipVars>>

AddComponent(t, e, c) ==
    /\ ~ub
    /\ LET r == add_component(_components, _erasers, t, e, c)
       IN  /\ _components' = r.comps
           /\ _erasers' = r.erasers
           /\ UbOutcome(r.oob)
    /\ reg_op' = ComponentOp
    /\ UNCHANGED <<worldVars, netVars, chargeVars, coolVars, engVars, _alive, _free_ids, handles, freed, spawns, kills,
                   storeVars, sysVars, zipVars>>

EmplaceComponent(t, e, c) ==
    /\ ~ub
    /\ LET r == emplace_component(_components, _erasers, t, e, c)
       IN  /\ _components' = r.comps
           /\ _erasers' = r.erasers
           /\ UbOutcome(r.oob)
    /\ reg_op' = ComponentOp
    /\ UNCHANGED <<worldVars, netVars, chargeVars, coolVars, engVars, _alive, _free_ids, handles, freed, spawns, kills,
                   storeVars, sysVars, zipVars>>

RemoveComponent(t, e) ==
    /\ ~ub
    /\ LET r == remove_component(_components, _erasers, t, e)
       IN  /\ _components' = r.comps
           /\ _erasers' = r.erasers
           /\ UbOutcome(r.oob)
    /\ reg_op' = ComponentOp
    /\ UNCHANGED <<worldVars, netVars, chargeVars, coolVars, engVars, _alive, _free_ids, handles, freed, spawns, kills,
                   storeVars, sysVars, zipVars>>

Init ==
    /\ _data = <<>>
    /\ sa_op = NoOp
    /\ ub = FALSE
    /\ RegInit
    /\ SysInit
    /\ ZipIdle
    /\ EngIdle

Next ==
    \/ SpawnEntity
    \/ \E e \in KillHandles : KillEntity(e)
    \/ \E t \in CompTypes : RegisterComponent(t)
    \/ \E t \in CompTypes, e \in Handles, c \in RegComponents :
          AddComponent(t, e, c)
    \/ \E t \in CompTypes, e \in Handles, c \in RegComponents :
          EmplaceComponent(t, e, c)
    \/ \E t \in CompTypes, e \in Handles : RemoveComponent(t, e)

Spec == Init /\ [][Next]_vars

\* The indices whose alive flag is set.
AliveSet(alive) == {i \in 0 .. Len(alive) - 1 : alive[i + 1]}
Range(q) == {q[i] : i \in 1 .. Len(q)}

\* C1: spawn_entity never returns an index that is marked alive or that a
\* live handle already carries, and the indices marked alive are exactly the
\* handles spawned and not killed: no two live entities share an index.
C1_NoSharedIndex ==
    [][ /\ handles' = AliveSet(_alive')
        /\ reg_op'.op = "spawn_entity"
            => /\ reg_op'.ret \notin handles
               /\ reg_op'.ret \notin AliveSet(_alive)
               /\ Cardinality(handles') = Cardinality(handles) + 1
      ]_vars

\* C1 witness: a spawn has reused a freed index while another entity lives.
C1_Witness ==
    /\ reg_op.op = "spawn_entity"
    /\ kills >= 1
    /\ reg_op.ret < Len(_alive) - 1
    /\ Cardinality(handles) >= 2

\* C2: after kill_entity(e) on a live entity e, no store of a registered
\* component type holds a value at e's index, and e is on the free list.
C2_KillClearsComponents ==
    [][ (reg_op'.op = "kill_entity" /\ reg_op'.arg \in handles)
            => /\ \A t \in DOMAIN _components' :
                      ~has_value(sa_at_const(_components'[t], reg_op'.arg).ret)
               /\ \A t \in DOMAIN _components : t \in DOMAIN _components'
               /\ reg_op'.arg \in Range(_free_ids')
      ]_vars

\* C2 witness: the entity killed held a component in two stores.
C2_Witness ==
    /\ reg_op.op = "kill_entity"
    /\ reg_op.ret = 2
    /\ reg_op.arg \in Range(_free_ids)

\* C3: spawn_entity returns the most recently freed index that has not been
\* reused, and leaves the index space as large as it was; with no such index
\* it returns the size of the index space and extends it by one. A spawn
\* right after a kill_entity(e) that freed e returns e.
C3_SpawnLifo ==
    [][ reg_op'.op = "spawn_entity"
            => /\ freed # <<>>
                    => /\ reg_op'.ret = freed[Len(freed)]
                       /\ Len(_alive') = Len(_alive)
               /\ freed = <<>>
                    => /\ reg_op'.ret = Len(_alive)
                       /\ Len(_alive') = Len(_alive) + 1
               /\ (reg_op.op = "kill_entity" /\ reg_op.ret >= 0)
                    => reg_op'.ret = reg_op.arg
      ]_vars

\* C3 witness: two indices were free and the spawn took the later freed one.
C3_Witness ==
    /\ reg_op.op = "spawn_entity"
    /\ reg_op.ret = 1
    /\ _free_ids = <<0>>

\* C4: the number of alive entities is the number of spawns minus the number
\* of kills of a live handle (kills of a dead, out-of-range or invalid handle
\* are not counted).
C4_AliveCount == Cardinality(AliveSet(_alive)) = spawns - kills

\* C4 witness: after spawns and counted kills, a kill that does not count.
C4_Witness ==
    /\ reg_op.op = "kill_entity"
    /\ reg_op.ret = -1
    /\ kills >= 2
    /\ spawns > kills

\* C5: kill_entity on a handle that is dead, out of the tracked range or
\* invalid leaves the alive flags, the free list and every store unchanged.
C5_DeadKillNoOp ==
    [][ (reg_op'.op = "kill_entity" /\ reg_op'.arg \notin handles)
            => UNCHANGED <<_alive, _free_ids, _components, _erasers>>
      ]_vars

\* C5 witness: a kill of a dead index in range, already on the free list,
\* at which a store holds a value.
C5_Witness ==
    /\ reg_op.op = "kill_entity"
    /\ reg_op.ret = -1
    /\ reg_op.arg \in Range(_free_ids)
    /\ held(_components, reg_op.arg) > 0

\* ----------------------------------------------------------------- SpecSys
\* add_system(f). Systems are registered while run_systems is not running,
\* as every caller in the repository does (Engine::registerSystems): an
\* emplace_back from inside a system would invalidate the iterators of the
\* loop of run_systems.
AddSystem(f) ==
    /\ ~ub
    /\ run_i = 0
    /\ Len(_systems) < MaxSystems
    /\ _systems' = add_system(_systems, f)
    /\ registered' = Append(registered, f)
    /\ UNCHANGED <<worldVars, netVars, chargeVars, coolVars, engVars, run_i, call_log, prev_log, runs, ub, regVars, storeVars,
                   zipVars>>

\* run_systems is entered: the loop starts at _systems.begin().
RunSystemsBegin ==
    /\ ~ub
    /\ run_i = 0
    /\ runs < MaxRuns
    /\ run_i' = 1
    /\ prev_log' = call_log
    /\ call_log' = <<>>
    /\ runs' = runs + 1
    /\ UNCHANGED <<worldVars, netVars, chargeVars, coolVars, engVars, _systems, registered, ub, regVars, storeVars, zipVars>>

\* One turn of the loop: sys(*this), then the loop moves on. What the closure
\* does to the entities is the spawn_entity and kill_entity calls that
\* SysNext allows while the loop is running.
RunSystemsCall ==
    /\ ~ub
    /\ run_i > 0
    /\ ~run_systems_at_end(_systems, run_i)
    /\ call_log' = Append(call_log, run_systems_sys(_systems, run_i))
    /\ run_i' = run_i + 1
    /\ UNCHANGED <<worldVars, netVars, chargeVars, coolVars, engVars, _systems, prev_log, runs, registered, ub, regVars,
                   storeVars, zipVars>>

\* The loop has reached the end: run_systems returns.
RunSystemsEnd ==
    /\ ~ub
    /\ run_i > 0
    /\ run_systems_at_end(_systems, run_i)
    /\ run_i' = 0
    /\ UNCHANGED <<worldVars, netVars, chargeVars, coolVars, engVars, _systems, call_log, prev_log, runs, registered, ub,
                   regVars, storeVars, zipVars>>

SysNext ==
    \/ \E f \in SystemIds : AddSystem(f)
    \/ RunSystemsBegin
    \/ RunSystemsCall
    \/ RunSystemsEnd
    \/ SpawnEntity
    \/ \E e \in KillHandles : KillEntity(e)

SpecSys == Init /\ [][SysNext]_vars

IsPrefix(p, q) == Len(p) <= Len(q) /\ SubSeq(q, 1, Len(p)) = p

\* C6: a call of run_systems invokes each registered system exactly once, in
\* the order of the add_system calls, and a later call invokes the systems
\* of the earlier call in the same order.
C6_RunOrder ==
    [][ (run_i > 0 /\ run_i' = 0)
            => /\ call_log' = registered
               /\ IsPrefix(prev_log', call_log')
      ]_vars

\* C6 witness: a second run has ended; it invoked two different systems, one
\* of them registered after the first run.
C6_Witness ==
    /\ run_i = 0
    /\ runs >= 2
    /\ Len(call_log) = 2
    /\ call_log[1] # call_log[2]
    /\ Len(prev_log) = 1

\* ----------------------------------------------------------------- SpecZip
\* The sparse arrays a zipper may be built on: every length up to MaxLen and
\* every pattern of present and absent slots.
StoreShapes ==
    UNION {[1 .. n -> {nullopt} \cup RegComponents] : n \in 0 .. MaxLen}

ZipInit ==
    /\ _data = <<>>
    /\ sa_op = NoOp
    /\ ub = FALSE
    /\ RegInit
    /\ SysInit
    /\ z_arrays \in StoreShapes \X StoreShapes
    /\ z_kind \in {"zipper", "indexed_zipper"}
    /\ z_max_size = 0
    /\ it_index = 0
    /\ z_pc = "none"
    /\ yielded = <<>>
    /\ prev_yielded = <<>>
    /\ passes = 0
    /\ EngIdle

\* zip(arrays...) / indexed_zip(arrays...): the constructor fixes _max_size.
ZipConstruct ==
    /\ z_pc = "none"
    /\ z_max_size' = max_size(z_arrays)
    /\ z_pc' = "built"
    /\ UNCHANGED <<worldVars, netVars, chargeVars, coolVars, engVars, z_arrays, z_kind, it_index, yielded, prev_yielded, passes,
                   ub, regVars, sysVars, storeVars>>

\* for (auto t : z): the loop calls begin() (and end()) once.
ZipBegin ==
    /\ z_pc \in {"built", "done"}
    /\ passes < MaxPasses
    /\ it_index' = zip_begin(z_kind, z_max_size, z_arrays)
    /\ prev_yielded' = yielded
    /\ yielded' = <<>>
    /\ passes' = passes + 1
    /\ z_pc' = "loop"
    /\ UNCHANGED <<worldVars, netVars, chargeVars, coolVars, engVars, z_arrays, z_kind, z_max_size, ub, regVars, sysVars,
                   storeVars>>

\* One turn of the loop: it != end, *it, the body, ++it.
ZipLoopTurn ==
    /\ z_pc = "loop"
    /\ not_equal(it_index, zip_end(z_kind, z_max_size, z_arrays))
    /\ LET d == deref(z_kind, z_arrays, it_index)
       IN  /\ z_arrays' = d.arrays
           /\ yielded' = Append(yielded, d.tuple)
           /\ UbOutcome(d.oob)
           /\ IF d.threw
              THEN z_pc' = "threw" /\ it_index' = it_index
              ELSE /\ z_pc' = "loop"
                   /\ it_index' = increment(z_kind, it_index, z_max_size,
                                            d.arrays)
    /\ UNCHANGED <<worldVars, netVars, chargeVars, coolVars, engVars, z_kind, z_max_size, prev_yielded, passes, regVars, sysVars,
                   storeVars>>

\* it == end: the loop is left.
ZipLoopEnd ==
    /\ z_pc = "loop"
    /\ ~not_equal(it_index, zip_end(z_kind, z_max_size, z_arrays))
    /\ z_pc' = "done"
    /\ UNCHANGED <<worldVars, netVars, chargeVars, coolVars, engVars, z_arrays, z_kind, z_max_size, it_index, yielded,
                   prev_yielded, passes, ub, regVars, sysVars, storeVars>>

ZipNext ==
    \/ ZipConstruct
    \/ ZipBegin
    \/ ZipLoopTurn
    \/ ZipLoopEnd

SpecZip == ZipInit /\ [][ZipNext]_vars

\* The indices at which every zipped array holds a value.
AllPresentAt == {i \in 0 .. MaxLen : \A k \in 1 .. Len(z_arrays) :
                    i < Len(z_arrays[k]) /\ z_arrays[k][i + 1] # nullopt}

\* C7: whatever the lengths of the zipped arrays, a zipper or indexed_zipper
\* never yields an index at which one of the arrays is too short or holds no
\* value; the tuple yielded holds the values at that index.
C7_YieldsOnlyPresent ==
    \A n \in 1 .. Len(yielded) :
        /\ yielded[n].index \in AllPresentAt
        /\ \A k \in 1 .. Len(z_arrays) :
              /\ yielded[n].index < Len(z_arrays[k])
              /\ yielded[n].vals[k] = z_arrays[k][yielded[n].index + 1]
              /\ yielded[n].vals[k] # nullopt

\* C7 witness: arrays of different lengths with an absent slot in the first
\* and a slot past the end of the second; the pass yielded and ended.
C7_Witness ==
    /\ z_pc = "done"
    /\ Len(yielded) >= 1
    /\ Len(z_arrays[1]) > Len(z_arrays[2])
    /\ \E i \in 1 .. Len(z_arrays[2]) : z_arrays[1][i] = nullopt
                                        /\ z_arrays[2][i] # nullopt

\* C8: a pass from begin() to end() yields, in strictly increasing order and
\* once each, exactly the indices below the largest array length at which
\* every array holds a value, and ends with the iterator at end(); a second
\* pass yields the same sequence.
C8_PassIsExact ==
    /\ \A m, n \in 1 .. Len(yielded) :
          m < n => yielded[m].index < yielded[n].index
    /\ z_pc \in {"loop", "done"} => it_index <= z_max_size
    /\ z_pc = "loop" =>
          {yielded[n].index : n \in 1 .. Len(yielded)}
              = {i \in AllPresentAt : i < it_index}
    /\ z_pc = "done" =>
          /\ {yielded[n].index : n \in 1 .. Len(yielded)} = AllPresentAt
          /\ it_index = z_max_size
          /\ passes >= 2 => yielded = prev_yielded
    /\ z_pc # "threw"

\* C8 witness: a second pass has ended and yielded two indices that are not
\* neighbours, the first of them not 0.
C8_Witness ==
    /\ z_pc = "done"
    /\ passes >= 2
    /\ Len(yielded) = 2
    /\ yielded[1].index > 0
    /\ yielded[2].index > yielded[1].index + 1

\* ================================================================== engine
\* Engine (engine.hpp) on top of the registry.  Floats are modelled by
\* integers: the configurations below only produce integral coordinates,
\* speeds and times, and every entity is spawned on the X axis, so that the
\* normalisation of a direction is exact.

\* Number of Engine::spawn calls explored.
MaxSpawns == 3
\* Number of Engine::update calls explored.
MaxUpdates == 2

\* std::numeric_limits<float>::infinity(), the cooldown of a weapon of rate 0.
infinity == 1000
\* float arithmetic on a value that may be infinity.
f_sub(t, d) == IF t = infinity THEN infinity ELSE t - d

\* std::uint32_t layer/mask words are modelled by their sets of bits.
bit_and(a, b) == a \cap b

\* resources.hpp: the definitions a configuration document provides.
ProjectileDefs ==
    [Bullet |-> [width |-> 2, height |-> 2]]

NoCharge == [maxTime |-> 0, thresholds |-> <<>>, levels |-> <<>>]

WeaponDefs ==
    [Gun     |-> [rate |-> 1, speed |-> 3, lifetime |-> 2, damage |-> 1,
                  projectileName |-> "Bullet", piercingHits |-> 1,
                  charge |-> NoCharge],
     Blaster |-> [rate |-> 0, speed |-> 3, lifetime |-> 5, damage |-> 1,
                  projectileName |-> "Bullet", piercingHits |-> 0,
                  charge |-> NoCharge]]

Archetypes ==
    [player |-> [name |-> "player", health |-> 2,
                 hitbox |-> [width |-> 2, height |-> 2, offsetX |-> 0,
                             offsetY |-> 0],
                 speed |-> 2, lookDirection |-> <<1, 0>>, range |-> 0,
                 weaponName |-> "Gun", pattern |-> <<>>, faction |-> 0,
                 colliderLayer |-> {1}, colliderMask |-> {2, 4},
                 colliderSolid |-> TRUE, colliderTrigger |-> FALSE,
                 colliderStatic |-> FALSE, targetOrder |-> <<>>,
                 targetMode |-> <<>>, thornsEnabled |-> FALSE,
                 thornsDamage |-> 0],
     drone  |-> [name |-> "drone", health |-> 2,
                 hitbox |-> [width |-> 2, height |-> 2, offsetX |-> 0,
                             offsetY |-> 0],
                 speed |-> 2, lookDirection |-> <<0, 1>>, range |-> 4,
                 weaponName |-> "Blaster", pattern |-> <<>>, faction |-> 1,
                 colliderLayer |-> {2}, colliderMask |-> {1, 2},
                 colliderSolid |-> TRUE, colliderTrigger |-> FALSE,
                 colliderStatic |-> FALSE, targetOrder |-> <<>>,
                 targetMode |-> <<>>, thornsEnabled |-> TRUE,
                 thornsDamage |-> 1]]

NoBounds == [minX |-> 0, minY |-> 0, maxX |-> 0, maxY |-> 0, enabled |-> FALSE]

\* GameConfig: the same definitions without and with the two regions.
Configs ==
    {[projectiles |-> ProjectileDefs, weapons |-> WeaponDefs,
      archetypes |-> Archetypes, worldBounds |-> NoBounds,
      playableBounds |-> NoBounds],
     [projectiles |-> ProjectileDefs, weapons |-> WeaponDefs,
      archetypes |-> Archetypes,
      worldBounds |-> [minX |-> -2, minY |-> -2, maxX |-> 4, maxY |-> 4,
                       enabled |-> TRUE],
      playableBounds |-> [minX |-> 1, minY |-> -2, maxX |-> 4, maxY |-> 2,
                          enabled |-> TRUE]]}

\* Where Engine::spawn is called in the explored scenes.
SpawnNames == {"player", "drone"}
SpawnPoints == {<<0, 0>>, <<3, 0>>}

\* Component constructors.
Hitbox(hw, hh, offX, offY) ==
    [halfWidth |-> hw, halfHeight |-> hh, offsetX |-> offX, offsetY |-> offY]
Collider(l, m, solid, trigger, static) ==
    [layer |-> l, mask |-> m, isSolid |-> solid, isTrigger |-> trigger,
     isStatic |-> static]
PendingDamage(amt, src) == [amount |-> amt, source |-> src]
Piercing(hits, set) == [remainingHits |-> hits, hitEntities |-> set]
Thorns(dmg, en) == [damage |-> dmg, enabled |-> en]
TargetList(ns, md) == [names |-> ns, modes |-> md]
MovementPatternComp(offsets, index) == [offsets |-> offsets, index |-> index]
InputState(mx, my, pressed) ==
    [moveX |-> mx, moveY |-> my, firePressed |-> pressed, fireHeld |-> FALSE,
     fireReleased |-> FALSE]
WeaponRef(def, cooldown, timer) ==
    [def |-> def, cooldown |-> cooldown, timer |-> timer,
     isCharging |-> FALSE, chargeTimeAccum |-> 0, chargeLevel |-> 0]

\* The component slots of one entity index, all empty: has is the set of
\* the component types whose std::optional slot holds a value, and an empty
\* slot is kept at the default value of its type.
NoEntity ==
    [has |-> {},
     Position |-> <<0, 0>>, Velocity |-> <<0, 0>>, Speed |-> 0,
     LookDirection |-> <<1, 0>>, Health |-> 0, Hitbox |-> Hitbox(0, 0, 0, 0),
     Collider |-> Collider({}, {}, FALSE, TRUE, FALSE), Faction |-> 0,
     PendingDamage |-> PendingDamage(0, 0), Piercing |-> Piercing(0, {}),
     Thorns |-> Thorns(0, FALSE), ArchetypeRef |-> "",
     TargetList |-> TargetList(<<>>, <<>>), Range |-> 0, Lifetime |-> 0,
     Damage |-> 0, MovementPatternComp |-> MovementPatternComp(<<>>, 0),
     DesiredPosition |-> <<0, 0>>, InputState |-> InputState(0, 0, FALSE),
     WeaponRef |-> WeaponRef("", 0, 0)]

\* The slots of entity index e (0-based) in the registry record w.
Ent(w, e) == w.ent[e + 1]
\* Whether the slot of component c of entity e holds a value.
Has(w, e, c) == c \in w.ent[e + 1].has
\* registry::emplace_component, or a write through a slot that holds a value.
Put(w, e, c, v) ==
    [w EXCEPT !.ent[e + 1][c] = v, !.ent[e + 1].has = @ \cup {c}]
\* sparse_array::erase of the slot of component c of entity e.
Erase(w, e, c) ==
    [w EXCEPT !.ent[e + 1][c] = NoEntity[c], !.ent[e + 1].has = @ \ {c}]

\* registry::spawn_entity on the engine's registry: the index comes from
\* spawn_entity; a fresh index gets a row of empty slots.
eng_spawn_entity(w) ==
    LET r == spawn_entity(w.alive, w.free)
    IN  [w |-> [w EXCEPT !.alive = r.alive, !.free = r.free,
                         !.ent = IF r.ret < Len(w.ent) THEN w.ent
                                 ELSE Append(w.ent, NoEntity)],
         ret |-> r.ret]

\* kill_entity without the erasers: the slots of e keep their values.
eng_kill_entity_keeps_components(w, e) ==
    IF e >= Len(w.alive) \/ ~w.alive[e + 1] THEN w
    ELSE [w EXCEPT !.alive[e + 1] = FALSE, !.free = Append(w.free, e)]

\* registry::kill_entity on the engine's registry: every eraser runs, so
\* every slot of e is emptied.
eng_kill_entity(w, e) ==
    IF e >= Len(w.alive) \/ ~w.alive[e + 1] THEN w
    ELSE [w EXCEPT !.alive[e + 1] = FALSE, !.free = Append(w.free, e),
                   !.ent[e + 1] = NoEntity]

\* kill_entity on each entity of a to-kill list, in order.
RECURSIVE kill_all(_, _)
kill_all(w, toKill) ==
    IF toKill = <<>> THEN w
    ELSE kill_all(eng_kill_entity(w, Head(toKill)), Tail(toKill))

\* Mutant: an archetype whose weapon name is unknown is spawned unarmed, and
\* the call returns its entity.
spawn_ignores_unknown_weapon(cfg, w, archetypeName, x, y) ==
    IF archetypeName \notin DOMAIN cfg.archetypes
    THEN [w |-> w, ret |-> NoSpawn.ret, raised |-> "Unknown archetype"]
    ELSE
    LET arch == cfg.archetypes[archetypeName]
        s    == eng_spawn_entity(w)
        ent  == s.ret
        named == arch.weaponName # ""
        armed == named /\ arch.weaponName \in DOMAIN cfg.weapons
        wdef == cfg.weapons[arch.weaponName]
        cooldown == IF wdef.rate > 0 THEN 1 \div wdef.rate ELSE infinity
        thrown == FALSE
        thorny == ~thrown /\ (arch.thornsEnabled \/ arch.thornsDamage > 0)
        row  == [NoEntity EXCEPT
                   !.has = {"Position", "Velocity", "Speed", "LookDirection",
                            "Health", "Hitbox", "Collider", "Faction",
                            "TargetList", "Range", "MovementPatternComp",
                            "ArchetypeRef", "InputState"}
                           \cup (IF armed THEN {"WeaponRef"} ELSE {})
                           \cup (IF thorny THEN {"Thorns"} ELSE {}),
                   !.Position = <<x, y>>,
                   !.Velocity = <<0, 0>>,
                   !.Speed = arch.speed,
                   !.LookDirection = arch.lookDirection,
                   !.Health = arch.health,
                   !.Hitbox = Hitbox(arch.hitbox.width \div 2,
                                     arch.hitbox.height \div 2,
                                     arch.hitbox.offsetX, arch.hitbox.offsetY),
                   !.Collider = Collider(arch.colliderLayer, arch.colliderMask,
                                         arch.colliderSolid,
                                         arch.colliderTrigger,
                                         arch.colliderStatic),
                   !.Faction = arch.faction,
                   !.TargetList = TargetList(arch.targetOrder, arch.targetMode),
                   !.Range = arch.range,
                   !.MovementPatternComp = MovementPatternComp(arch.pattern, 0),
                   !.ArchetypeRef = arch.name,
                   !.InputState = InputState(0, 0, FALSE),
                   !.WeaponRef = IF armed
                                 THEN WeaponRef(arch.weaponName, cooldown, 0)
                                 ELSE NoEntity.WeaponRef,
                   !.Thorns = IF thorny
                              THEN Thorns(arch.thornsDamage, arch.thornsEnabled)
                              ELSE NoEntity.Thorns]
    IN  [w |-> [s.w EXCEPT !.ent[ent + 1] = row],
         ret |-> IF thrown THEN NoSpawn.ret ELSE ent,
         raised |-> IF thrown THEN "Archetype references unknown weapon"
                    ELSE "none"]

\* Engine::spawn: [w, ret, raised].  An archetype name that is not in the
\* configuration raises before the registry is touched.  A weapon name that
\* is not in the configuration raises after the entity has been spawned and
\* given its components up to InputState; the entity stays in the registry.
spawn(cfg, w, archetypeName, x, y) ==
    IF archetypeName \notin DOMAIN cfg.archetypes
    THEN [w |-> w, ret |-> NoSpawn.ret, raised |-> "Unknown archetype"]
    ELSE
    LET arch == cfg.archetypes[archetypeName]
        s    == eng_spawn_entity(w)
        ent  == s.ret
        named == arch.weaponName # ""
        armed == named /\ arch.weaponName \in DOMAIN cfg.weapons
        wdef == cfg.weapons[arch.weaponName]
        cooldown == IF wdef.rate > 0 THEN 1 \div wdef.rate ELSE infinity
        thrown == named /\ ~armed
        thorny == ~thrown /\ (arch.thornsEnabled \/ arch.thornsDamage > 0)
        row  == [NoEntity EXCEPT
                   !.has = {"Position", "Velocity", "Speed", "LookDirection",
                            "Health", "Hitbox", "Collider", "Faction",
                            "TargetList", "Range", "MovementPatternComp",
                            "ArchetypeRef", "InputState"}
                           \cup (IF armed THEN {"WeaponRef"} ELSE {})
                           \cup (IF thorny THEN {"Thorns"} ELSE {}),
                   !.Position = <<x, y>>,
                   !.Velocity = <<0, 0>>,
                   !.Speed = arch.speed,
                   !.LookDirection = arch.lookDirection,
                   !.Health = arch.health,
                   !.Hitbox = Hitbox(arch.hitbox.width \div 2,
                                     arch.hitbox.height \div 2,
                                     arch.hitbox.offsetX, arch.hitbox.offsetY),
                   !.Collider = Collider(arch.colliderLayer, arch.colliderMask,
                                         arch.colliderSolid,
                                         arch.colliderTrigger,
                                         arch.colliderStatic),
                   !.Faction = arch.faction,
                   !.TargetList = TargetList(arch.targetOrder, arch.targetMode),
                   !.Range = arch.range,
                   !.MovementPatternComp = MovementPatternComp(arch.pattern, 0),
                   !.ArchetypeRef = arch.name,
                   !.InputState = InputState(0, 0, FALSE),
                   !.WeaponRef = IF armed
                                 THEN WeaponRef(arch.weaponName, cooldown, 0)
                                 ELSE NoEntity.WeaponRef,
                   !.Thorns = IF thorny
                              THEN Thorns(arch.thornsDamage, arch.thornsEnabled)
                              ELSE NoEntity.Thorns]
    IN  [w |-> [s.w EXCEPT !.ent[ent + 1] = row],
         ret |-> IF thrown THEN NoSpawn.ret ELSE ent,
         raised |-> IF thrown THEN "Archetype references unknown weapon"
                    ELSE "none"]

\* ------------------------------------------------- the registered systems
\* During an update the registry record also carries the history of the
\* update: log (the phases run), hits (the damage added by projectiles and
\* thorns) and shots (the projectiles created).

\* Input system: Velocity = move axes * Speed on every index the zipper over
\* (InputState, Velocity, Speed) yields.
input_system(w) ==
    [w EXCEPT !.ent = [i \in DOMAIN w.ent |->
        LET c == w.ent[i]
        IN  IF {"InputState", "Velocity", "Speed"} \subseteq c.has
            THEN [c EXCEPT !.Velocity = <<c.InputState.moveX * c.Speed,
                                          c.InputState.moveY * c.Speed>>]
            ELSE c]]

\* Integrate system: DesiredPosition = Position + Velocity * dt, overwritten
\* or created.
integrate_system(w, dt) ==
    [w EXCEPT !.ent = [i \in DOMAIN w.ent |->
        LET c == w.ent[i]
        IN  IF {"Position", "Velocity"} \subseteq c.has
            THEN [c EXCEPT !.DesiredPosition =
                               <<c.Position[1] + c.Velocity[1] * dt,
                                 c.Position[2] + c.Velocity[2] * dt>>,
                           !.has = @ \cup {"DesiredPosition"}]
            ELSE c]]

\* std::sqrt on the integers: exact on the squares the explored scenes
\* produce, rounded down elsewhere.
sqrt(n) == CHOOSE r \in 0 .. n : r * r <= n /\ (r + 1) * (r + 1) > n

\* The normalisation both the weapon system and the AI system apply to a
\* direction: divided by its length, (1, 0) when the length is zero.
normalize(dx, dy) ==
    LET len == sqrt(dx * dx + dy * dy)
    IN  IF len > 0 THEN <<dx \div len, dy \div len>> ELSE <<1, 0>>

\* The charge level of an accumulated charge time: the last threshold
\* reached, clamped to the last level.
RECURSIVE level_from(_, _, _, _)
level_from(thresholds, accum, i, level) ==
    IF i >= Len(thresholds) THEN level
    ELSE level_from(thresholds, accum, i + 1,
                    IF accum >= thresholds[i + 1] THEN i ELSE level)

charge_level(spec, accum) ==
    LET level == level_from(spec.thresholds, accum, 0, 0)
    IN  IF spec.levels # <<>> /\ level >= Len(spec.levels)
        THEN Len(spec.levels) - 1
        ELSE level

\* What a read through a reference into a reallocated store can give: the
\* value that was there, or whatever the freed storage now holds.
DanglingReads == {"intact", "garbage"}
GarbagePosition == <<-9, -9>>

\* The projectile the weapon system creates for shooter idx: its entity and
\* its components.  pos is what the emplace of Position read through the
\* shooter's Position reference; that read is stale when the projectile's
\* index is a fresh one, because emplace_at grows the Position store before
\* it reads its arguments.
spawn_projectile(cfg, w, idx, wdef, level, look, pos) ==
    LET s    == eng_spawn_entity(w)
        proj == s.ret
        pdef == cfg.projectiles[wdef.projectileName]
        spec == wdef.charge
        charged == level < Len(spec.levels)
        lev  == spec.levels[level + 1]
        finalDamage == IF charged THEN wdef.damage * lev.damageMul
                       ELSE wdef.damage
        finalSpeed  == IF charged THEN wdef.speed * lev.speedMul
                       ELSE wdef.speed
        sizeMul     == IF charged THEN lev.sizeMul ELSE 1
        finalPierce == IF charged THEN wdef.piercingHits + lev.piercingHits
                       ELSE wdef.piercingHits
        shooter == Ent(w, idx)
        factionId == IF "Faction" \in shooter.has THEN shooter.Faction ELSE 0
        row == [NoEntity EXCEPT
                  !.has = {"Position", "Velocity", "Lifetime", "Damage",
                           "Hitbox", "Collider", "Faction", "Piercing"},
                  !.Position = pos,
                  !.Velocity = <<look[1] * finalSpeed, look[2] * finalSpeed>>,
                  !.Lifetime = wdef.lifetime,
                  !.Damage = finalDamage,
                  !.Hitbox = Hitbox((pdef.width * sizeMul) \div 2,
                                    (pdef.height * sizeMul) \div 2, 0, 0),
                  !.Collider = Collider(IF factionId = 0 THEN {4} ELSE {8},
                                        IF factionId = 0 THEN {2} ELSE {1},
                                        FALSE, TRUE, FALSE),
                  !.Faction = factionId,
                  !.Piercing = Piercing(finalPierce, {})]
    IN  [s.w EXCEPT !.ent[proj + 1] = row,
                    !.shots = Append(@, [shooter |-> idx, proj |-> proj,
                                         from |-> shooter.Position,
                                         at |-> pos,
                                         stale |-> proj >= Len(w.ent)])]

\* weapon_turn without the cooldown: the timer is left at zero after a shot.
weapon_turn_without_cooldown(cfg, w, idx, dt, read) ==
    LET c == Ent(w, idx)
    IN
    IF ~({"WeaponRef", "InputState", "Position", "LookDirection"}
            \subseteq c.has)
    THEN w
    ELSE
    LET wr    == c.WeaponRef
        in    == c.InputState
        timer == IF wr.timer > 0 THEN f_sub(wr.timer, dt) ELSE wr.timer
        isCharging == in.firePressed \/ wr.isCharging
        pressedAccum == IF in.firePressed THEN 0 ELSE wr.chargeTimeAccum
        hasDef == wr.def # ""
        wdef  == cfg.weapons[wr.def]
        maxT  == IF hasDef THEN wdef.charge.maxTime ELSE 0
        accum == IF in.fireHeld /\ isCharging
                 THEN (IF pressedAccum + dt > maxT THEN maxT
                       ELSE pressedAccum + dt)
                 ELSE pressedAccum
        fires == in.fireReleased /\ isCharging /\ timer <= 0 /\ hasDef
        level == charge_level(wdef.charge, accum)
        look  == normalize(c.LookDirection[1], c.LookDirection[2])
        found == wdef.projectileName \in DOMAIN cfg.projectiles
        grows == w.free = <<>>
        pos   == IF grows /\ read = "garbage" THEN GarbagePosition
                 ELSE c.Position
        spawned == IF fires /\ found
                   THEN spawn_projectile(cfg, w, idx, wdef, level, look, pos)
                   ELSE w
        after == IF fires
                 THEN [wr EXCEPT !.timer = 0, !.isCharging = FALSE,
                                 !.chargeTimeAccum = 0, !.chargeLevel = level]
                 ELSE [wr EXCEPT !.timer = timer, !.isCharging = isCharging,
                                 !.chargeTimeAccum = accum]
    IN  [spawned EXCEPT
            !.ent[idx + 1].WeaponRef = after,
            !.ent[idx + 1].InputState =
                [in EXCEPT !.firePressed = FALSE, !.fireReleased = FALSE]]

\* One turn of the weapon system's loop, on entity idx.  read is the outcome
\* of the read through the shooter's Position reference when the Position
\* store has grown to cover the projectile's index.
weapon_turn(cfg, w, idx, dt, read) ==
    LET c == Ent(w, idx)
    IN
    IF ~({"WeaponRef", "InputState", "Position", "LookDirection"}
            \subseteq c.has)
    THEN w
    ELSE
    LET wr    == c.WeaponRef
        in    == c.InputState
        timer == IF wr.timer > 0 THEN f_sub(wr.timer, dt) ELSE wr.timer
        isCharging == in.firePressed \/ wr.isCharging
        pressedAccum == IF in.firePressed THEN 0 ELSE wr.chargeTimeAccum
        hasDef == wr.def # ""
        wdef  == cfg.weapons[wr.def]
        maxT  == IF hasDef THEN wdef.charge.maxTime ELSE 0
        accum == IF in.fireHeld /\ isCharging
                 THEN (IF pressedAccum + dt > maxT THEN maxT
                       ELSE pressedAccum + dt)
                 ELSE pressedAccum
        fires == in.fireReleased /\ isCharging /\ timer <= 0 /\ hasDef
        level == charge_level(wdef.charge, accum)
        look  == normalize(c.LookDirection[1], c.LookDirection[2])
        found == wdef.projectileName \in DOMAIN cfg.projectiles
        grows == w.free = <<>>
        pos   == IF grows /\ read = "garbage" THEN GarbagePosition
                 ELSE c.Position
        spawned == IF fires /\ found
                   THEN spawn_projectile(cfg, w, idx, wdef, level, look, pos)
                   ELSE w
        after == IF fires
                 THEN [wr EXCEPT !.timer = wr.cooldown, !.isCharging = FALSE,
                                 !.chargeTimeAccum = 0, !.chargeLevel = level]
                 ELSE [wr EXCEPT !.timer = timer, !.isCharging = isCharging,
                                 !.chargeTimeAccum = accum]
    IN  [spawned EXCEPT
            !.ent[idx + 1].WeaponRef = after,
            !.ent[idx + 1].InputState =
                [in EXCEPT !.firePressed = FALSE, !.fireReleased = FALSE]]

RECURSIVE weapon_loop(_, _, _, _, _)
weapon_loop(cfg, w, idx, dt, read) ==
    IF idx >= Len(w.ent) THEN w
    ELSE weapon_loop(cfg, weapon_turn(cfg, w, idx, dt, read), idx + 1, dt, read)

\* Weapon system.
weapon_system(cfg, w, dt, read) == weapon_loop(cfg, w, 0, dt, read)

\* Lifetime system: only the countdown.
lifetime_system(w, dt) ==
    [w EXCEPT !.ent = [i \in DOMAIN w.ent |->
        LET c == w.ent[i]
        IN  IF "Lifetime" \in c.has
            THEN [c EXCEPT !.Lifetime = f_sub(c.Lifetime, dt)]
            ELSE c]]

\* Movement pattern system: the current offset scaled by dt is added to
\* DesiredPosition (created from Position when absent) and the index moves
\* on cyclically.
pattern_system(w, dt) ==
    [w EXCEPT !.ent = [i \in DOMAIN w.ent |->
        LET c   == w.ent[i]
            pat == c.MovementPatternComp
            off == pat.offsets[pat.index + 1]
            dx  == off[1] * dt
            dy  == off[2] * dt
            base == IF "DesiredPosition" \in c.has THEN c.DesiredPosition
                    ELSE c.Position
        IN  IF {"MovementPatternComp", "Position"} \subseteq c.has
               /\ pat.offsets # <<>>
            THEN [c EXCEPT !.DesiredPosition = <<base[1] + dx, base[2] + dy>>,
                           !.has = @ \cup {"DesiredPosition"},
                           !.MovementPatternComp.index =
                               IF pat.index + 1 >= Len(pat.offsets) THEN 0
                               ELSE pat.index + 1]
            ELSE c]]

\* static_cast<std::size_t>(-1): no candidate chosen.
no_index == 0 - 1

\* The squared distance between the positions of entities a and b.
dist_sq(w, a, b) ==
    LET dx == Ent(w, b).Position[1] - Ent(w, a).Position[1]
        dy == Ent(w, b).Position[2] - Ent(w, a).Position[2]
    IN  dx * dx + dy * dy

\* The entities the AI of idx may aim at: another index with a Position and a
\* Faction other than its own, within Range; with a category, only those
\* whose archetype has that name.
ai_candidates(w, idx, useCat, cat) ==
    {j \in 0 .. Len(w.ent) - 1 :
        /\ j # idx
        /\ {"Position", "Faction"} \subseteq Ent(w, j).has
        /\ useCat => /\ "ArchetypeRef" \in Ent(w, j).has
                     /\ Ent(w, j).ArchetypeRef # ""
                     /\ Ent(w, j).ArchetypeRef = cat
        /\ Ent(w, j).Faction # Ent(w, idx).Faction
        /\ dist_sq(w, idx, j) <= Ent(w, idx).Range * Ent(w, idx).Range}

\* The first candidate in index order.
first_of(S) == IF S = {} THEN no_index ELSE CHOOSE j \in S : \A k \in S : j <= k

\* The closest candidate, the lowest index among equals.
closest_of(w, idx, S) ==
    IF S = {} THEN no_index
    ELSE CHOOSE j \in S : \A k \in S :
            \/ dist_sq(w, idx, j) < dist_sq(w, idx, k)
            \/ dist_sq(w, idx, j) = dist_sq(w, idx, k) /\ j <= k

\* The walk over the ordered categories: the first category with a
\* candidate decides.
RECURSIVE ai_by_category(_, _, _, _)
ai_by_category(w, idx, order, k) ==
    IF k > Len(order) THEN no_index
    ELSE LET cat == order[k]
             modes == Ent(w, idx).TargetList.modes
             useClosest == /\ cat \in DOMAIN modes
                           /\ modes[cat] \in {"closest_in_class", "closest"}
             S == ai_candidates(w, idx, TRUE, cat)
             best == IF useClosest THEN closest_of(w, idx, S) ELSE first_of(S)
         IN  IF best # no_index THEN best
             ELSE ai_by_category(w, idx, order, k + 1)

\* ai_target without the test that the list is empty before the fallback.
ai_target_always_falls_back(w, idx) ==
    LET order == Ent(w, idx).TargetList.names
        byCat == ai_by_category(w, idx, order, 1)
    IN  IF byCat = no_index
        THEN closest_of(w, idx, ai_candidates(w, idx, FALSE, ""))
        ELSE byCat

\* The target the AI of idx chooses, no_index when there is none.
ai_target(w, idx) ==
    LET order == Ent(w, idx).TargetList.names
        byCat == ai_by_category(w, idx, order, 1)
    IN  IF byCat = no_index /\ order = <<>>
        THEN closest_of(w, idx, ai_candidates(w, idx, FALSE, ""))
        ELSE byCat

\* AI system: an armed entity of a faction other than 0 whose timer is at or
\* below zero turns to its target and synthesises a press and a release.
ai_system(w) ==
    [w EXCEPT !.ent = [i \in DOMAIN w.ent |->
        LET c   == w.ent[i]
            idx == i - 1
            chosenIdx == ai_target(w, idx)
            t   == Ent(w, chosenIdx)
        IN  IF /\ {"WeaponRef", "InputState", "Position", "LookDirection",
                   "Faction", "Range", "TargetList"} \subseteq c.has
               /\ c.Faction # 0
               /\ ~(c.WeaponRef.timer > 0)
               /\ chosenIdx # no_index
               /\ "Position" \in t.has
            THEN [c EXCEPT
                    !.LookDirection = normalize(t.Position[1] - c.Position[1],
                                                t.Position[2] - c.Position[2]),
                    !.InputState = [@ EXCEPT !.firePressed = TRUE,
                                             !.fireReleased = TRUE,
                                             !.fireHeld = FALSE]]
            ELSE c]]

\* ------------------------------------------------------ the update phases
\* The world-space edges of a hitbox centred at (x, y).
left_of(x, hb) == x + hb.offsetX - hb.halfWidth
right_of(x, hb) == x + hb.offsetX + hb.halfWidth
top_of(y, hb) == y + hb.offsetY - hb.halfHeight
bottom_of(y, hb) == y + hb.offsetY + hb.halfHeight

\* Whether resolveSolidCollisions tests entity i against entity j: j is a
\* solid with a Position and a Hitbox, the layer/mask words meet, and j is
\* static or has the higher index.
solid_blocker(w, i, j) ==
    /\ i # j
    /\ {"Position", "Hitbox", "Collider"} \subseteq Ent(w, j).has
    /\ Ent(w, j).Collider.isSolid
    /\ ~(/\ bit_and(Ent(w, i).Collider.mask, Ent(w, j).Collider.layer) = {}
         /\ bit_and(Ent(w, j).Collider.mask, Ent(w, i).Collider.layer) = {})
    /\ (Ent(w, j).Collider.isStatic \/ i < j)

\* X pass for entity i: the inner loop over j, acc = [x, hit] the resolved X
\* so far and whether a crossing was found.
RECURSIVE resolve_x(_, _, _, _)
resolve_x(w, i, j, acc) ==
    IF j >= Len(w.ent) THEN acc
    ELSE
    LET a   == Ent(w, i)
        b   == Ent(w, j)
        hbA == a.Hitbox
        hbB == b.Hitbox
        oldX == a.Position[1]
        oldY == a.Position[2]
        leftB   == left_of(b.Position[1], hbB)
        rightB  == right_of(b.Position[1], hbB)
        overlapY == ~(\/ top_of(oldY, hbA) > bottom_of(b.Position[2], hbB)
                      \/ bottom_of(oldY, hbA) < top_of(b.Position[2], hbB))
        goRight == /\ acc.x > oldX
                   /\ right_of(acc.x, hbA) > leftB
                   /\ right_of(oldX, hbA) <= leftB
        x1 == IF goRight THEN leftB - hbA.offsetX - hbA.halfWidth ELSE acc.x
        goLeft == /\ x1 < oldX
                  /\ left_of(acc.x, hbA) < rightB
                  /\ left_of(oldX, hbA) >= rightB
        x2 == IF goLeft THEN rightB - hbA.offsetX + hbA.halfWidth ELSE x1
    IN  IF solid_blocker(w, i, j) /\ overlapY
        THEN resolve_x(w, i, j + 1, [x |-> x2, hit |-> acc.hit \/ goRight \/ goLeft])
        ELSE resolve_x(w, i, j + 1, acc)

\* Y pass for entity i, with the X the first pass resolved.
RECURSIVE resolve_y(_, _, _, _)
resolve_y(w, i, j, acc) ==
    IF j >= Len(w.ent) THEN acc
    ELSE
    LET a   == Ent(w, i)
        b   == Ent(w, j)
        hbA == a.Hitbox
        hbB == b.Hitbox
        oldY == a.Position[2]
        finalX == a.DesiredPosition[1]
        topB    == top_of(b.Position[2], hbB)
        bottomB == bottom_of(b.Position[2], hbB)
        overlapX == ~(\/ left_of(finalX, hbA) > right_of(b.Position[1], hbB)
                      \/ right_of(finalX, hbA) < left_of(b.Position[1], hbB))
        goDown == /\ acc.y > oldY
                  /\ bottom_of(acc.y, hbA) > topB
                  /\ bottom_of(oldY, hbA) <= topB
        y1 == IF goDown THEN topB - hbA.offsetY - hbA.halfHeight ELSE acc.y
        goUp == /\ y1 < oldY
                /\ top_of(acc.y, hbA) < bottomB
                /\ top_of(oldY, hbA) >= bottomB
        y2 == IF goUp THEN bottomB - hbA.offsetY + hbA.halfHeight ELSE y1
    IN  IF solid_blocker(w, i, j) /\ overlapX
        THEN resolve_y(w, i, j + 1, [y |-> y2, hit |-> acc.hit \/ goDown \/ goUp])
        ELSE resolve_y(w, i, j + 1, acc)

\* Whether resolveSolidCollisions treats entity row c at all.
solid_mover(c) ==
    /\ {"Position", "DesiredPosition", "Hitbox", "Collider"} \subseteq c.has
    /\ c.Collider.isSolid

resolve_pass_x(w) ==
    [w EXCEPT !.ent = [i \in DOMAIN w.ent |->
        LET c == w.ent[i]
            r == resolve_x(w, i - 1, 0, [x |-> c.DesiredPosition[1], hit |-> FALSE])
        IN  IF solid_mover(c)
            THEN [c EXCEPT !.DesiredPosition[1] = r.x,
                           !.Velocity[1] = IF r.hit /\ "Velocity" \in c.has
                                           THEN 0 ELSE @]
            ELSE c]]

resolve_pass_y(w) ==
    [w EXCEPT !.ent = [i \in DOMAIN w.ent |->
        LET c == w.ent[i]
            r == resolve_y(w, i - 1, 0, [y |-> c.DesiredPosition[2], hit |-> FALSE])
        IN  IF solid_mover(c)
            THEN [c EXCEPT !.DesiredPosition[2] = r.y,
                           !.Velocity[2] = IF r.hit /\ "Velocity" \in c.has
                                           THEN 0 ELSE @]
            ELSE c]]

\* Engine::resolveSolidCollisions: the X pass on every entity, then the Y
\* pass.
resolveSolidCollisions(w) == resolve_pass_y(resolve_pass_x(w))

\* The lowest index enforcePlayableBoundsForPlayer stops at: an entity of
\* faction 0 whose archetype is named "player", with a Position and a
\* DesiredPosition; no_index when there is none.
player_index(w) ==
    first_of({i \in 0 .. Len(w.ent) - 1 :
                /\ {"Position", "DesiredPosition", "Faction", "ArchetypeRef"}
                       \subseteq Ent(w, i).has
                /\ Ent(w, i).Faction = 0
                /\ Ent(w, i).ArchetypeRef = "player"})

\* Mutant: the clamp always snaps the coordinate to the lower bound.
clamp_always_min(v, min, max) == [v |-> min, clamped |-> TRUE]

\* The clamp of one coordinate: [value, clamped].
clamp(v, min, max) ==
    IF v < min THEN [v |-> min, clamped |-> TRUE]
    ELSE IF v > max THEN [v |-> max, clamped |-> TRUE]
    ELSE [v |-> v, clamped |-> FALSE]

\* Mutant: the clamp moves the DesiredPosition and leaves the Velocity alone.
enforcePlayableBoundsForPlayer_keeps_velocity(cfg, w) ==
    LET bounds == cfg.playableBounds
        idx == player_index(w)
        c   == Ent(w, idx)
        hasHb == "Hitbox" \in c.has
        halfW == IF hasHb THEN c.Hitbox.halfWidth ELSE 0
        halfH == IF hasHb THEN c.Hitbox.halfHeight ELSE 0
        offX  == IF hasHb THEN c.Hitbox.offsetX ELSE 0
        offY  == IF hasHb THEN c.Hitbox.offsetY ELSE 0
        cx == clamp(c.DesiredPosition[1], bounds.minX + halfW - offX,
                    bounds.maxX - halfW - offX)
        cy == clamp(c.DesiredPosition[2], bounds.minY + halfH - offY,
                    bounds.maxY - halfH - offY)
    IN  IF ~bounds.enabled \/ idx = no_index THEN w
        ELSE [w EXCEPT
                !.ent[idx + 1].DesiredPosition =
                    <<IF cx.clamped THEN cx.v ELSE @[1],
                      IF cy.clamped THEN cy.v ELSE @[2]>>]

\* Engine::enforcePlayableBoundsForPlayer.
enforcePlayableBoundsForPlayer(cfg, w) ==
    LET bounds == cfg.playableBounds
        idx == player_index(w)
        c   == Ent(w, idx)
        hasHb == "Hitbox" \in c.has
        halfW == IF hasHb THEN c.Hitbox.halfWidth ELSE 0
        halfH == IF hasHb THEN c.Hitbox.halfHeight ELSE 0
        offX  == IF hasHb THEN c.Hitbox.offsetX ELSE 0
        offY  == IF hasHb THEN c.Hitbox.offsetY ELSE 0
        cx == clamp(c.DesiredPosition[1], bounds.minX + halfW - offX,
                    bounds.maxX - halfW - offX)
        cy == clamp(c.DesiredPosition[2], bounds.minY + halfH - offY,
                    bounds.maxY - halfH - offY)
        hasVel == "Velocity" \in c.has
    IN  IF ~bounds.enabled \/ idx = no_index THEN w
        ELSE [w EXCEPT
                !.ent[idx + 1].DesiredPosition =
                    <<IF cx.clamped THEN cx.v ELSE @[1],
                      IF cy.clamped THEN cy.v ELSE @[2]>>,
                !.ent[idx + 1].Velocity =
                    <<IF cx.clamped /\ hasVel THEN 0 ELSE @[1],
                      IF cy.clamped /\ hasVel THEN 0 ELSE @[2]>>]

\* Engine::commitPositions.
commitPositions(w) ==
    [w EXCEPT !.ent = [i \in DOMAIN w.ent |->
        LET c == w.ent[i]
        IN  IF {"Position", "DesiredPosition"} \subseteq c.has
            THEN [c EXCEPT !.Position = c.DesiredPosition]
            ELSE c]]

\* Mutant: the right edge of the region is not tested.
outside_ignores_right(c, bounds) ==
    LET hb == IF "Hitbox" \in c.has THEN c.Hitbox ELSE Hitbox(0, 0, 0, 0)
    IN  \/ left_of(c.Position[1], hb) < bounds.minX
        \/ top_of(c.Position[2], hb) < bounds.minY
        \/ bottom_of(c.Position[2], hb) > bounds.maxY

\* Whether the hitbox of row c, or its point when it has no Hitbox, leaves
\* the region.
outside(c, bounds) ==
    LET hb == IF "Hitbox" \in c.has THEN c.Hitbox ELSE Hitbox(0, 0, 0, 0)
    IN  \/ left_of(c.Position[1], hb) < bounds.minX
        \/ right_of(c.Position[1], hb) > bounds.maxX
        \/ top_of(c.Position[2], hb) < bounds.minY
        \/ bottom_of(c.Position[2], hb) > bounds.maxY

\* The indices of a set, in increasing order.
RECURSIVE ascending(_)
ascending(S) ==
    IF S = {} THEN <<>>
    ELSE LET m == CHOOSE j \in S : \A k \in S : j <= k
         IN  <<m>> \o ascending(S \ {m})

\* Engine::cullOutsideWorldBounds.
cullOutsideWorldBounds(cfg, w) ==
    IF ~cfg.worldBounds.enabled THEN w
    ELSE kill_all(w, ascending({i \in 0 .. Len(w.ent) - 1 :
                                  /\ "Position" \in Ent(w, i).has
                                  /\ outside(Ent(w, i), cfg.worldBounds)}))

\* Mutant: a second source of damage in the same update replaces the pending
\* amount instead of adding to it.
add_pending_overwrite(w, target, amt, src, kind) ==
    LET pd == PendingDamage(amt, src)
    IN  [Put(w, target, "PendingDamage", pd) EXCEPT
            !.hits = Append(@, [source |-> src, target |-> target,
                                amount |-> amt, kind |-> kind])]

\* Damage added to the PendingDamage of target: accumulated on the component
\* when there is one, else a new component.  The addition is recorded in
\* hits.
add_pending(w, target, amt, src, kind) ==
    LET c  == Ent(w, target)
        pd == IF "PendingDamage" \in c.has
              THEN [c.PendingDamage EXCEPT !.amount = @ + amt]
              ELSE PendingDamage(amt, src)
    IN  [Put(w, target, "PendingDamage", pd) EXCEPT
            !.hits = Append(@, [source |-> src, target |-> target,
                                amount |-> amt, kind |-> kind])]

\* Whether the hitboxes of entities a and b intersect and their layer/mask
\* words meet.
touching(w, ia, ib) ==
    LET a == Ent(w, ia)
        b == Ent(w, ib)
    IN  /\ ~(\/ left_of(a.Position[1], a.Hitbox) > right_of(b.Position[1], b.Hitbox)
             \/ right_of(a.Position[1], a.Hitbox) < left_of(b.Position[1], b.Hitbox)
             \/ top_of(a.Position[2], a.Hitbox) > bottom_of(b.Position[2], b.Hitbox)
             \/ bottom_of(a.Position[2], a.Hitbox) < top_of(b.Position[2], b.Hitbox))
        /\ ~(/\ bit_and(a.Collider.mask, b.Collider.layer) = {}
             /\ bit_and(b.Collider.mask, a.Collider.layer) = {})

\* The thorns of entity src against entity target.
thorns_hit(w, src, target) ==
    LET th == Ent(w, src).Thorns
    IN  IF "Thorns" \in Ent(w, src).has /\ th.enabled /\ th.damage > 0
        THEN add_pending(w, target, th.damage, src, "thorns")
        ELSE w

\* Mutant: the faction test is dropped from the projectile branch.
hostile_any(w, proj, target) == TRUE

\* Whether the projectile's damage may go to the target: not when both have
\* a Faction and the two are equal.
hostile(w, proj, target) ==
    \/ "Faction" \notin Ent(w, proj).has
    \/ "Faction" \notin Ent(w, target).has
    \/ Ent(w, proj).Faction # Ent(w, target).Faction

\* projectile_hit without the test of the hit-set.
projectile_hit_ignores_hit_set(s, proj, target) ==
    LET w  == s.w
        p  == Ent(w, proj)
        pierces == "Piercing" \in p.has
        w1 == IF pierces
              THEN [w EXCEPT !.ent[proj + 1].Piercing.hitEntities =
                                 @ \cup {target}]
              ELSE w
        w2 == add_pending(w1, target, p.Damage, proj, "projectile")
        w3 == IF pierces
              THEN [w2 EXCEPT !.ent[proj + 1].Piercing.remainingHits = @ - 1]
              ELSE w2
        spent == pierces => Ent(w3, proj).Piercing.remainingHits <= 0
    IN  IF hostile(w, proj, target)
        THEN [w |-> w3,
              toKill |-> IF spent THEN Append(s.toKill, proj) ELSE s.toKill]
        ELSE s

\* The projectile branch of a pair: s = [w, toKill].
projectile_hit(s, proj, target) ==
    LET w  == s.w
        p  == Ent(w, proj)
        pierces == "Piercing" \in p.has
        fresh == target \notin p.Piercing.hitEntities
        w1 == IF pierces
              THEN [w EXCEPT !.ent[proj + 1].Piercing.hitEntities =
                                 @ \cup {target}]
              ELSE w
        w2 == add_pending(w1, target, p.Damage, proj, "projectile")
        w3 == IF pierces
              THEN [w2 EXCEPT !.ent[proj + 1].Piercing.remainingHits = @ - 1]
              ELSE w2
        spent == pierces => Ent(w3, proj).Piercing.remainingHits <= 0
    IN  IF hostile(w, proj, target) /\ (pierces => fresh)
        THEN [w |-> w3,
              toKill |-> IF spent THEN Append(s.toKill, proj) ELSE s.toKill]
        ELSE s

\* One pair (ia, ib) of the double loop of handleCollisions.
collide_pair(s, ia, ib) ==
    LET w  == s.w
        a  == Ent(w, ia)
        b  == Ent(w, ib)
        w1 == thorns_hit(thorns_hit(w, ia, ib), ib, ia)
        aProjectile == "Damage" \in a.has
        bProjectile == "Damage" \in b.has
    IN  IF ~touching(w, ia, ib) THEN s
        ELSE IF ~a.Collider.isTrigger /\ ~b.Collider.isTrigger
        THEN [s EXCEPT !.w = w1]
        ELSE IF aProjectile # bProjectile
        THEN projectile_hit([s EXCEPT !.w = w1],
                            IF aProjectile THEN ia ELSE ib,
                            IF aProjectile THEN ib ELSE ia)
        ELSE [s EXCEPT !.w = w1]

\* The double loop over the collected entities: positions a < b of ents.
RECURSIVE collide_from(_, _, _, _)
collide_from(s, ents, a, b) ==
    IF a > Len(ents) THEN s
    ELSE IF b > Len(ents) THEN collide_from(s, ents, a + 1, a + 2)
    ELSE collide_from(collide_pair(s, ents[a], ents[b]), ents, a, b + 1)

\* positions.size() in handleCollisions: Engine::spawn and the weapon system
\* emplace a Position on every index they create, and a sparse_array never
\* shrinks.
positions_size(w) == Len(w.ent)

\* A heap allocation a local std::vector of an update makes, recorded when
\* need holds: reserve(n) on the fresh vector with n > 0, or its first
\* push_back.
allocated(w, what, need) ==
    IF need THEN [w EXCEPT !.heap = Append(@, what)] ELSE w

\* Engine::handleCollisions: ents is reserved for positions.size() indices
\* and filled, then the pairs, then the deferred kills of toKill.
handleCollisions(w) ==
    LET ents == ascending({i \in 0 .. Len(w.ent) - 1 :
                    {"Position", "Hitbox", "Collider"} \subseteq Ent(w, i).has})
        s == collide_from([w |-> allocated(w, "ents.reserve",
                                           positions_size(w) > 0),
                           toKill |-> <<>>], ents, 1, 2)
    IN  kill_all(allocated(s.w, "toKill.push_back", s.toKill # <<>>),
                 s.toKill)

\* Engine::applyDamage.
applyDamage(w) ==
    LET pending == {i \in 0 .. Len(w.ent) - 1 : "PendingDamage" \in Ent(w, i).has}
        applied == [w EXCEPT !.ent = [i \in DOMAIN w.ent |->
            LET c == w.ent[i]
            IN  IF "PendingDamage" \in c.has
                THEN [c EXCEPT
                        !.Health = IF "Health" \in c.has
                                   THEN @ - c.PendingDamage.amount ELSE @,
                        !.PendingDamage = NoEntity.PendingDamage,
                        !.has = @ \ {"PendingDamage"}]
                ELSE c]]
        toKill == ascending({i \in pending :
                    /\ "Health" \in Ent(applied, i).has
                    /\ Ent(applied, i).Health <= 0})
    IN  kill_all(applied, toKill)

\* Mutant: an entity is only destroyed once its Lifetime is below zero.
expireLifetimes_below_zero(w) ==
    kill_all(w, ascending({i \in 0 .. Len(w.ent) - 1 :
                             /\ "Lifetime" \in Ent(w, i).has
                             /\ Ent(w, i).Lifetime < 0}))

\* The end of Engine::update: the entities whose Lifetime has run out are
\* killed.
expireLifetimes(w) ==
    kill_all(w, ascending({i \in 0 .. Len(w.ent) - 1 :
                             /\ "Lifetime" \in Ent(w, i).has
                             /\ Ent(w, i).Lifetime <= 0}))

\* Mutant: the AI system is registered before the weapon system.
registerSystems_ai_before_weapon ==
    add_system(add_system(add_system(add_system(add_system(add_system(<<>>,
        "input"), "integrate"), "ai"), "weapon"), "lifetime"), "pattern")

\* Engine::registerSystems: the six add_system calls, in the order of the
\* code.
registerSystems ==
    add_system(add_system(add_system(add_system(add_system(add_system(<<>>,
        "input"), "integrate"), "weapon"), "lifetime"), "pattern"), "ai")

\* A phase of the update, recorded in the log once it has run.
logged(w, phase) == [w EXCEPT !.log = Append(@, phase)]

\* The call of one registered system.
call_system(cfg, w, f, dt, read) ==
    CASE f = "input"     -> input_system(w)
      [] f = "integrate" -> integrate_system(w, dt)
      [] f = "weapon"    -> weapon_system(cfg, w, dt, read)
      [] f = "lifetime"  -> lifetime_system(w, dt)
      [] f = "pattern"   -> pattern_system(w, dt)
      [] f = "ai"        -> ai_system(w)

\* registry::run_systems on the engine's systems.
RECURSIVE engine_run_systems(_, _, _, _, _, _)
engine_run_systems(cfg, w, systems, i, dt, read) ==
    IF run_systems_at_end(systems, i) THEN w
    ELSE LET f == run_systems_sys(systems, i)
         IN  engine_run_systems(cfg, logged(call_system(cfg, w, f, dt, read), f),
                                systems, i + 1, dt, read)

\* Engine::update.
update(cfg, w, dt, read) ==
    logged(expireLifetimes(
     logged(applyDamage(
      logged(handleCollisions(
       logged(cullOutsideWorldBounds(cfg,
        logged(commitPositions(
         logged(enforcePlayableBoundsForPlayer(cfg,
          logged(resolveSolidCollisions(
           engine_run_systems(cfg, w, registerSystems, 1, dt, read)),
          "resolveSolidCollisions")),
         "enforcePlayableBoundsForPlayer")),
        "commitPositions")),
       "cullOutsideWorldBounds")),
      "handleCollisions")),
     "applyDamage")),
    "expireLifetimes")

\* The registry and the record of the phases that Engine::update(dt) leaves.
registry_of(w) == [alive |-> w.alive, free |-> w.free, ent |-> w.ent]
trace_of(w) ==
    [log |-> w.log, hits |-> w.hits, shots |-> w.shots, heap |-> w.heap]

\* ------------------------------------------------------------- SpecEngine
\* What the game code writes into the InputState of a controlled entity
\* between two updates: a move to the right or to the left, a press, a
\* release, a press and a release in the same tick, a diagonal move.
Commands ==
    {[moveX |-> 1, moveY |-> 0, firePressed |-> FALSE, fireHeld |-> FALSE,
      fireReleased |-> FALSE],
     [moveX |-> 1, moveY |-> 1, firePressed |-> FALSE, fireHeld |-> FALSE,
      fireReleased |-> FALSE],
     [moveX |-> -1, moveY |-> 0, firePressed |-> FALSE, fireHeld |-> FALSE,
      fireReleased |-> FALSE],
     [moveX |-> 0, moveY |-> 0, firePressed |-> TRUE, fireHeld |-> FALSE,
      fireReleased |-> FALSE],
     [moveX |-> 0, moveY |-> 0, firePressed |-> FALSE, fireHeld |-> FALSE,
      fireReleased |-> TRUE],
     [moveX |-> 0, moveY |-> 0, firePressed |-> TRUE, fireHeld |-> FALSE,
      fireReleased |-> TRUE]}

\* The time steps passed to update.
Steps == {0, 1}

\* Engine(config): the registry is empty and the systems are registered.
EngInit ==
    /\ _data = <<>>
    /\ sa_op = NoOp
    /\ ub = FALSE
    /\ RegInit
    /\ SysInit
    /\ ZipIdle
    /\ m_config \in Configs
    /\ m_registry = EmptyRegistry
    /\ m_dt = 0
    /\ updates = 0
    /\ before = EmptyRegistry
    /\ trace = NoTrace
    /\ spawn_op = NoSpawn
    /\ CoolIdle
    /\ ChargeIdle
    /\ NetIdle
    /\ WorldIdle

\* Engine::spawn(archetypeName, x, y), while the scene is set up.
EngSpawn(archetypeName, p) ==
    /\ updates = 0
    /\ Len(m_registry.alive) < MaxSpawns
    /\ \E s \in {spawn(m_config, m_registry, archetypeName, p[1], p[2])} :
          /\ m_registry' = s.w
          /\ spawn_op' = [name |-> archetypeName, ret |-> s.ret,
                          raised |-> s.raised]
    /\ UNCHANGED <<coolVars, chargeVars, netVars, worldVars, m_config, m_dt, updates, before, trace, ub, storeVars,
                   regVars, sysVars, zipVars>>

\* The entity the game code controls: the first entity spawned from the
\* archetype "player".
controlled(w) ==
    first_of({i \in 0 .. Len(w.ent) - 1 :
                /\ "InputState" \in Ent(w, i).has
                /\ Ent(w, i).ArchetypeRef = "player"})

\* getRegistry().get_components<InputState>()[e] written by the game code
\* for the controlled entity, before an update.
WriteInput(in) ==
    /\ updates < MaxUpdates
    /\ controlled(m_registry) # no_index
    /\ Ent(m_registry, controlled(m_registry)).InputState # in
    /\ m_registry' = Put(m_registry, controlled(m_registry), "InputState", in)
    /\ UNCHANGED <<coolVars, chargeVars, netVars, worldVars, m_config, m_dt, updates, before, trace, spawn_op, ub,
                   storeVars, regVars, sysVars, zipVars>>

\* Engine::update(dt).  read is what a read through a dangling reference
\* gives in this call.
EngUpdate(dt, read) ==
    /\ updates < MaxUpdates
    /\ LET w == update(m_config, [alive |-> m_registry.alive,
                                  free |-> m_registry.free,
                                  ent |-> m_registry.ent,
                                  log |-> <<>>, hits |-> <<>>, shots |-> <<>>,
             heap |-> <<>>],
                       dt, read)
       IN  /\ m_registry' = registry_of(w)
           /\ trace' = trace_of(w)
    /\ m_dt' = dt
    /\ updates' = updates + 1
    /\ before' = m_registry
    /\ UNCHANGED <<coolVars, chargeVars, netVars, worldVars, m_config, spawn_op, ub, storeVars, regVars, sysVars, zipVars>>

EngNext ==
    \/ \E a \in SpawnNames, p \in SpawnPoints : EngSpawn(a, p)
    \/ \E in \in Commands : WriteInput(in)
    \/ \E dt \in Steps, read \in DanglingReads : EngUpdate(dt, read)

SpecEngine == EngInit /\ [][EngNext]_vars

\* ------------------------------------------------------------------ claims
\* C11: every Engine::update runs each phase exactly once, in this order:
\* the six registered systems (input, integrate, weapon, lifetime, movement
\* pattern, AI), then solid collision resolution, the playable-bounds clamp,
\* the commit of DesiredPosition into Position, the world-bounds cull, the
\* trigger collisions, the damage application and the destruction of the
\* entities whose lifetime has run out.
C11_PhaseOrder ==
    updates > 0 =>
        trace.log = <<"input", "integrate", "weapon", "lifetime", "pattern",
                      "ai", "resolveSolidCollisions",
                      "enforcePlayableBoundsForPlayer", "commitPositions",
                      "cullOutsideWorldBounds", "handleCollisions",
                      "applyDamage", "expireLifetimes">>

\* An update in which a shot was fired and damage was added has returned.
C11_Witness ==
    /\ updates > 0
    /\ trace.shots # <<>>
    /\ trace.hits # <<>>
    /\ Len(trace.log) > 0

\* Whether entity i of registry w is an armed AI entity whose weapon is off
\* cooldown and which has an enemy within its Range.
AiReady(w, i) ==
    /\ {"WeaponRef", "InputState", "Position", "LookDirection", "Faction",
        "Range", "TargetList"} \subseteq Ent(w, i).has
    /\ Ent(w, i).Faction # 0
    /\ Ent(w, i).WeaponRef.timer <= 0
    /\ ai_target(w, i) # no_index

\* Whether the direction look points from position p to position q.
PointsToward(look, p, q) ==
    LET dx == q[1] - p[1]
        dy == q[2] - p[2]
    IN  IF dx = 0 /\ dy = 0 THEN look = <<1, 0>>
        ELSE /\ look[1] * dy - look[2] * dx = 0
             /\ look[1] * dx + look[2] * dy > 0

\* The projectiles of registry w: the entities carrying Damage.
Projectiles(w) == {p \in 0 .. Len(w.ent) - 1 : "Damage" \in Ent(w, p).has}

\* C12: when an armed AI entity whose weapon is off cooldown has an enemy
\* within its Range, then after a single update its LookDirection points
\* toward that enemy and a projectile exists whose Position equals the
\* Position of the AI entity.
C12_AiFiresInOneUpdate ==
    updates > 0 =>
        \A i \in 0 .. Len(before.ent) - 1 :
            (AiReady(before, i) /\ "WeaponRef" \in Ent(m_registry, i).has) =>
                /\ PointsToward(Ent(m_registry, i).LookDirection,
                                Ent(before, i).Position,
                                Ent(before, ai_target(before, i)).Position)
                /\ \E p \in Projectiles(m_registry) :
                      Ent(m_registry, p).Position = Ent(m_registry, i).Position

\* C13: when update returns, firePressed and fireReleased are false in the
\* InputState of every entity, whether or not it fired during the tick.
C13_FireFlagsCleared ==
    [][updates' = updates + 1 =>
          \A i \in 0 .. Len(m_registry'.ent) - 1 :
              "InputState" \in Ent(m_registry', i).has =>
                  /\ ~Ent(m_registry', i).InputState.firePressed
                  /\ ~Ent(m_registry', i).InputState.fireReleased]_vars

\* Whether the weapon system sees entity i of registry w release fire while
\* charging (the press of this tick included) with its timer, after the
\* countdown by dt, at or below zero.
ReleasesCharged(w, i, dt) ==
    LET wr == Ent(w, i).WeaponRef
        in == Ent(w, i).InputState
    IN  /\ in.fireReleased
        /\ in.firePressed \/ wr.isCharging
        /\ (IF wr.timer > 0 THEN f_sub(wr.timer, dt) ELSE wr.timer) <= 0

\* The shots of the last update fired by entity i.
ShotsBy(i) == {s \in 1 .. Len(trace.shots) : trace.shots[s].shooter = i}

\* C14: in the weapon system an entity spawns a projectile exactly when fire
\* is released while it is charging and its timer, after the countdown of
\* the tick, is at or below zero; the projectile is created at the shooter's
\* Position; the timer is then 1/rate, or unbounded for rate zero, and the
\* charging state is cleared.
C14_WeaponFire ==
    updates > 0 =>
        \A i \in 0 .. Len(before.ent) - 1 :
            {"WeaponRef", "InputState", "Position", "LookDirection"}
                \subseteq Ent(before, i).has =>
                LET fires == ReleasesCharged(before, i, m_dt)
                    rate  == m_config.weapons[Ent(before, i).WeaponRef.def].rate
                IN  /\ (ShotsBy(i) # {}) <=> fires
                    /\ \A s \in ShotsBy(i) :
                          trace.shots[s].at = Ent(before, i).Position
                    /\ (fires /\ "WeaponRef" \in Ent(m_registry, i).has) =>
                          /\ Ent(m_registry, i).WeaponRef.timer =
                                 (IF rate > 0 THEN 1 \div rate ELSE infinity)
                          /\ ~Ent(m_registry, i).WeaponRef.isCharging

\* The targets to which projectile p added damage during the last update.
TargetsHitBy(p) ==
    {trace.hits[h].target : h \in {n \in 1 .. Len(trace.hits) :
        trace.hits[n].kind = "projectile" /\ trace.hits[n].source = p}}

\* The pierce budget with which projectile p entered the collisions of the
\* last update: the one it carried before the update, or the one the weapon
\* system gave it when it was fired during the update.
PierceBudget(p) ==
    IF p < Len(before.ent) /\ "Damage" \in Ent(before, p).has
    THEN Ent(before, p).Piercing.remainingHits
    ELSE LET s == CHOOSE n \in 1 .. Len(trace.shots) : trace.shots[n].proj = p
             wdef == m_config.weapons[
                         Ent(before, trace.shots[s].shooter).WeaponRef.def]
         IN  wdef.piercingHits

\* The projectiles that added damage during the last update.
HittingProjectiles ==
    {trace.hits[h].source : h \in {n \in 1 .. Len(trace.hits) :
        trace.hits[n].kind = "projectile"}}

\* C15: a projectile with pierce budget k >= 1 adds damage to at most k
\* targets, also when it overlaps several hostile targets during the same
\* update, and it is destroyed once it has registered its k-th hit.
C15_PierceBudget ==
    updates > 0 =>
        \A p \in HittingProjectiles :
            PierceBudget(p) >= 1 =>
                /\ Cardinality(TargetsHitBy(p)) <= PierceBudget(p)
                /\ Cardinality(TargetsHitBy(p)) >= PierceBudget(p) =>
                       ~m_registry.alive[p + 1]

\* The sum of the amounts of the hits h[n .. Len(h)] that landed on target.
RECURSIVE SumHits(_, _, _)
SumHits(h, n, target) ==
    IF n > Len(h) THEN 0
    ELSE (IF h[n].target = target THEN h[n].amount ELSE 0)
         + SumHits(h, n + 1, target)

\* The damage that the last update added to entity i, over all its sources.
DamageTo(i) == SumHits(trace.hits, 1, i)

\* The kinds of source that damaged entity i during the last update.
KindsOn(i) ==
    {trace.hits[n].kind : n \in {k \in 1 .. Len(trace.hits) :
                                    trace.hits[k].target = i}}

\* C16: the damage that several sources add to one entity during an update
\* is summed and its Health is decremented once by the sum; the entity is
\* destroyed in that update iff the resulting Health is zero or below, and
\* no PendingDamage is left on any entity after the update.
C16_DamageSummedOnce ==
    updates > 0 =>
        /\ \A i \in 0 .. Len(m_registry.ent) - 1 :
              "PendingDamage" \notin Ent(m_registry, i).has
        /\ \A i \in 0 .. Len(before.ent) - 1 :
              ("Health" \in Ent(before, i).has /\ KindsOn(i) # {}) =>
                  LET left == Ent(before, i).Health - DamageTo(i)
                  IN  /\ m_registry.alive[i + 1] <=> left > 0
                      /\ m_registry.alive[i + 1] =>
                             Ent(m_registry, i).Health = left

\* An update in which Thorns and a projectile both damaged the same entity,
\* whose Health was spent by the sum though neither amount alone would have.
C16_Witness ==
    /\ updates > 0
    /\ \E i \in 0 .. Len(before.ent) - 1 :
          /\ "Health" \in Ent(before, i).has
          /\ KindsOn(i) = {"thorns", "projectile"}
          /\ DamageTo(i) = Ent(before, i).Health
          /\ \A n \in 1 .. Len(trace.hits) :
                trace.hits[n].target = i =>
                    trace.hits[n].amount < Ent(before, i).Health
          /\ ~m_registry.alive[i + 1]

\* Whether index p carried a projectile when the last update began.
FlewBefore(p) == p < Len(before.ent) /\ "Damage" \in Ent(before, p).has

\* The shot of the last update that created projectile p.
ShotOf(p) == CHOOSE n \in 1 .. Len(trace.shots) : trace.shots[n].proj = p

\* The projectiles that took part in the last update: those in flight when
\* it began and those fired during it.
FlyingProjectiles ==
    {p \in 0 .. Len(m_registry.ent) - 1 :
        FlewBefore(p) \/ \E n \in 1 .. Len(trace.shots) : trace.shots[n].proj = p}

\* The faction of projectile p: its shooter's, or 0 for a shooter without
\* Faction.
ProjectileFaction(p) ==
    IF FlewBefore(p) THEN Ent(before, p).Faction
    ELSE LET shooter == Ent(before, trace.shots[ShotOf(p)].shooter)
         IN  IF "Faction" \in shooter.has THEN shooter.Faction ELSE 0

\* The hit-set with which projectile p entered the last update.
HitSetBefore(p) ==
    IF FlewBefore(p) THEN Ent(before, p).Piercing.hitEntities ELSE {}

\* The Lifetime with which projectile p entered the last update.
LifetimeBefore(p) ==
    IF FlewBefore(p) THEN Ent(before, p).Lifetime
    ELSE m_config.weapons[Ent(before,
             trace.shots[ShotOf(p)].shooter).WeaponRef.def].lifetime

\* C17: a projectile never adds damage to an entity of its own faction, and
\* a contact with such an entity leaves its hit-set and its pierce budget as
\* they were and does not destroy it: the hit-set and the budget change by
\* the damaged targets only, and a projectile that damaged nothing survives
\* the update unless it left the world or its Lifetime ran out.
C17_NoFriendlyFire ==
    updates > 0 =>
        \A p \in FlyingProjectiles :
            /\ \A t \in TargetsHitBy(p) :
                  "Faction" \in Ent(before, t).has =>
                      Ent(before, t).Faction # ProjectileFaction(p)
            /\ (m_registry.alive[p + 1] /\ "Damage" \in Ent(m_registry, p).has) =>
                  /\ Ent(m_registry, p).Piercing.hitEntities =
                         HitSetBefore(p) \cup TargetsHitBy(p)
                  /\ Ent(m_registry, p).Piercing.remainingHits =
                         PierceBudget(p) - Cardinality(TargetsHitBy(p))
            /\ ( /\ TargetsHitBy(p) = {}
                 /\ ~m_config.worldBounds.enabled
                 /\ f_sub(LifetimeBefore(p), m_dt) > 0 ) =>
                  m_registry.alive[p + 1] /\ "Damage" \in Ent(m_registry, p).has

\* After an update a projectile overlaps a living entity of its own faction,
\* with layer and mask words that meet, and has damaged nothing.
C17_Witness ==
    /\ updates > 0
    /\ \E p \in FlyingProjectiles :
          /\ m_registry.alive[p + 1]
          /\ "Damage" \in Ent(m_registry, p).has
          /\ TargetsHitBy(p) = {}
          /\ \E t \in 0 .. Len(m_registry.ent) - 1 :
                /\ t # p
                /\ m_registry.alive[t + 1]
                /\ {"Health", "Faction", "Position", "Hitbox", "Collider"}
                       \subseteq Ent(m_registry, t).has
                /\ Ent(m_registry, t).Faction = Ent(m_registry, p).Faction
                /\ touching(m_registry, p, t)

\* Whether entity i of registry w is a solid, non-static collider with a
\* Position and a Hitbox.
MovableSolid(w, i) ==
    /\ {"Position", "Hitbox", "Collider"} \subseteq Ent(w, i).has
    /\ Ent(w, i).Collider.isSolid
    /\ ~Ent(w, i).Collider.isStatic

\* Whether the hitboxes of entities a and b of registry w overlap on X, on Y.
OverlapX(w, a, b) ==
    /\ left_of(Ent(w, a).Position[1], Ent(w, a).Hitbox)
           < right_of(Ent(w, b).Position[1], Ent(w, b).Hitbox)
    /\ left_of(Ent(w, b).Position[1], Ent(w, b).Hitbox)
           < right_of(Ent(w, a).Position[1], Ent(w, a).Hitbox)
OverlapY(w, a, b) ==
    /\ top_of(Ent(w, a).Position[2], Ent(w, a).Hitbox)
           < bottom_of(Ent(w, b).Position[2], Ent(w, b).Hitbox)
    /\ top_of(Ent(w, b).Position[2], Ent(w, b).Hitbox)
           < bottom_of(Ent(w, a).Position[2], Ent(w, a).Hitbox)

\* Whether the input of entity a drives it along X towards entity b during
\* an update by dt.
DrivenToward(w, a, b, dt) ==
    /\ {"InputState", "Velocity", "Speed"} \subseteq Ent(w, a).has
    /\ dt > 0
    /\ Ent(w, a).InputState.moveY = 0
    /\ Ent(w, a).InputState.moveX * Ent(w, a).Speed
           * (Ent(w, b).Position[1] - Ent(w, a).Position[1]) > 0

\* C18: two solid, non-static colliders whose layer/mask words meet, with
\* overlapping Y extents and no overlap on X before the update, of which one
\* moves towards the other along X, do not overlap on X after the update,
\* whichever of the two has the lower index.
C18_SolidsKeptApartOnX ==
    updates > 0 =>
        \A a, b \in 0 .. Len(before.ent) - 1 :
            ( /\ a # b
              /\ MovableSolid(before, a) /\ MovableSolid(before, b)
              /\ \/ bit_and(Ent(before, a).Collider.mask,
                            Ent(before, b).Collider.layer) # {}
                 \/ bit_and(Ent(before, b).Collider.mask,
                            Ent(before, a).Collider.layer) # {}
              /\ OverlapY(before, a, b)
              /\ ~OverlapX(before, a, b)
              /\ DrivenToward(before, a, b, m_dt)
              /\ m_registry.alive[a + 1] /\ m_registry.alive[b + 1] ) =>
                ~OverlapX(m_registry, a, b)

\* Whether entity i stood idle at the origin when the last update began:
\* Position (0,0), zero Velocity, zero move axes, no movement pattern.
IdleAtOrigin(i) ==
    LET c == Ent(before, i)
    IN  /\ {"Position", "Velocity"} \subseteq c.has
        /\ c.Position = <<0, 0>>
        /\ c.Velocity = <<0, 0>>
        /\ "InputState" \in c.has =>
               c.InputState.moveX = 0 /\ c.InputState.moveY = 0
        /\ "MovementPatternComp" \in c.has =>
               c.MovementPatternComp.offsets = <<>>

\* Whether entity i is still there, with a Position, after the last update.
StillThere(i) ==
    m_registry.alive[i + 1] /\ "Position" \in Ent(m_registry, i).has

\* Whether entity i is the one entity the playable region applies to: the
\* lowest index of faction 0 whose archetype is named "player".
Designated(i) ==
    LET players == {j \in 0 .. Len(before.ent) - 1 :
                      /\ {"Position", "Velocity", "Faction", "ArchetypeRef"}
                             \subseteq Ent(before, j).has
                      /\ Ent(before, j).Faction = 0
                      /\ Ent(before, j).ArchetypeRef = "player"}
    IN  i \in players /\ \A j \in players : i <= j

\* A coordinate brought into [lo, hi].
Into(v, lo, hi) == IF v < lo THEN lo ELSE IF v > hi THEN hi ELSE v

\* Where the playable region leaves the centre of entity i when its
\* DesiredPosition is the origin.
OriginInPlayable(i) ==
    LET c  == Ent(before, i)
        hb == IF "Hitbox" \in c.has THEN c.Hitbox ELSE Hitbox(0, 0, 0, 0)
        b  == m_config.playableBounds
    IN  <<Into(0, b.minX + hb.halfWidth - hb.offsetX,
                  b.maxX - hb.halfWidth - hb.offsetX),
          Into(0, b.minY + hb.halfHeight - hb.offsetY,
                  b.maxY - hb.halfHeight - hb.offsetY)>>

\* C19 as stated: an entity idle at the origin that is still there after
\* the update has Position (0,0), in every configuration.
C19_IdleStaysAtOrigin ==
    updates > 0 =>
        \A i \in 0 .. Len(before.ent) - 1 :
            (IdleAtOrigin(i) /\ StillThere(i)) =>
                Ent(m_registry, i).Position = <<0, 0>>

\* C19, amended: an entity idle at the origin that is still there after the
\* update has Position (0,0), except the designated player under a
\* configured playable region, whose Position is the origin brought into the
\* region adjusted for its hitbox.
C19_IdleStaysUnlessClamped ==
    updates > 0 =>
        \A i \in 0 .. Len(before.ent) - 1 :
            (IdleAtOrigin(i) /\ StillThere(i)) =>
                Ent(m_registry, i).Position =
                    (IF m_config.playableBounds.enabled /\ Designated(i)
                     THEN OriginInPlayable(i) ELSE <<0, 0>>)

\* An update with a positive step after which one idle entity is still at
\* the origin while the idle designated player was moved off it by the
\* playable region.
C19_Witness ==
    /\ updates > 0
    /\ m_dt > 0
    /\ \E i, j \in 0 .. Len(before.ent) - 1 :
          /\ IdleAtOrigin(i) /\ StillThere(i) /\ ~Designated(i)
          /\ Ent(m_registry, i).Position = <<0, 0>>
          /\ IdleAtOrigin(j) /\ StillThere(j) /\ Designated(j)
          /\ Ent(m_registry, j).Position # <<0, 0>>

\* Whether a hitbox hb centred at pos, a point when hb has no extent, lies
\* within the world region of the configuration.
WithinWorld(pos, hb) ==
    LET b == m_config.worldBounds
    IN  /\ pos[1] + hb.offsetX - hb.halfWidth >= b.minX
        /\ pos[1] + hb.offsetX + hb.halfWidth <= b.maxX
        /\ pos[2] + hb.offsetY - hb.halfHeight >= b.minY
        /\ pos[2] + hb.offsetY + hb.halfHeight <= b.maxY

\* The hitbox of row c, without extent when it has none.
HitboxOrPoint(c) ==
    IF "Hitbox" \in c.has THEN c.Hitbox ELSE Hitbox(0, 0, 0, 0)

\* C20: when world bounds are configured, after an update no entity with a
\* Position has its hitbox, or its point when it has no Hitbox, outside the
\* world region.
C20_NothingOutsideWorld ==
    (updates > 0 /\ m_config.worldBounds.enabled) =>
        \A i \in 0 .. Len(m_registry.ent) - 1 :
            "Position" \in Ent(m_registry, i).has =>
                WithinWorld(Ent(m_registry, i).Position,
                            HitboxOrPoint(Ent(m_registry, i)))

\* With world bounds configured, a projectile in flight inside the region
\* was carried outside it by the last update and is gone, while another
\* entity is still there.
C20_Witness ==
    /\ updates > 0
    /\ m_config.worldBounds.enabled
    /\ \E p \in 0 .. Len(before.ent) - 1 :
          /\ FlewBefore(p)
          /\ WithinWorld(Ent(before, p).Position, HitboxOrPoint(Ent(before, p)))
          /\ ~WithinWorld(<<Ent(before, p).Position[1]
                                + Ent(before, p).Velocity[1] * m_dt,
                            Ent(before, p).Position[2]
                                + Ent(before, p).Velocity[2] * m_dt>>,
                          HitboxOrPoint(Ent(before, p)))
          /\ Ent(before, p).Velocity[1] > 0
          /\ TargetsHitBy(p) = {}
          /\ ~m_registry.alive[p + 1]
    /\ \E i \in 0 .. Len(m_registry.ent) - 1 : StillThere(i)

\* The registry of the last update as it stood when the playable-bounds clamp
\* began: after the six systems and the solid collision resolution.  The
\* rows of the entities that existed before the update do not depend on the
\* outcome of the read through the shooter's Position reference.
BeforeClamp ==
    resolveSolidCollisions(
        engine_run_systems(m_config,
            [alive |-> before.alive, free |-> before.free, ent |-> before.ent,
             log |-> <<>>, hits |-> <<>>, shots |-> <<>>,
             heap |-> <<>>],
            registerSystems, 1, m_dt, "intact"))

\* The range the playable region leaves to the centre of entity i on axis
\* k (1 for X, 2 for Y): the region shrunk by the hitbox half-extent.
PlayableMin(i, k) ==
    LET hb == HitboxOrPoint(Ent(before, i))
        b  == m_config.playableBounds
    IN  IF k = 1 THEN b.minX + hb.halfWidth - hb.offsetX
        ELSE b.minY + hb.halfHeight - hb.offsetY
PlayableMax(i, k) ==
    LET hb == HitboxOrPoint(Ent(before, i))
        b  == m_config.playableBounds
    IN  IF k = 1 THEN b.maxX - hb.halfWidth - hb.offsetX
        ELSE b.maxY - hb.halfHeight - hb.offsetY

\* Whether the clamp had to move, on axis k, entity i of the registry pre as
\* it stood before the clamp.
WasClamped(pre, i, k) ==
    \/ Ent(pre, i).DesiredPosition[k] < PlayableMin(i, k)
    \/ Ent(pre, i).DesiredPosition[k] > PlayableMax(i, k)

\* C21: when a playable region is configured, after an update the
\* designated player that is still there has its Position, on each axis
\* independently, inside the region shrunk by its hitbox half-extents; its
\* Velocity is zero on every axis that was clamped, and on an axis that was
\* not clamped its Velocity and its position are those it had before the
\* clamp.
C21_PlayerKeptInPlayable ==
    (updates > 0 /\ m_config.playableBounds.enabled) =>
        \A pre \in {BeforeClamp} :
            \A i \in 0 .. Len(before.ent) - 1 :
                (Designated(i) /\ StillThere(i)) =>
                    \A k \in {1, 2} :
                        /\ Ent(m_registry, i).Position[k] >= PlayableMin(i, k)
                        /\ Ent(m_registry, i).Position[k] <= PlayableMax(i, k)
                        /\ WasClamped(pre, i, k) =>
                               Ent(m_registry, i).Velocity[k] = 0
                        /\ ~WasClamped(pre, i, k) =>
                              /\ Ent(m_registry, i).Velocity[k] =
                                     Ent(pre, i).Velocity[k]
                              /\ Ent(m_registry, i).Position[k] =
                                     Ent(pre, i).DesiredPosition[k]

\* After an update the designated player, driven along X out of the
\* playable region, sits on the edge of the shrunk region with zero X
\* velocity, its Y axis untouched.
C21_Witness ==
    /\ updates > 0
    /\ m_config.playableBounds.enabled
    /\ \E pre \in {BeforeClamp} :
           \E i \in 0 .. Len(before.ent) - 1 :
              /\ Designated(i) /\ StillThere(i)
              /\ WasClamped(pre, i, 1) /\ ~WasClamped(pre, i, 2)
              /\ Ent(pre, i).Velocity[1] # 0
              /\ Ent(m_registry, i).Velocity[1] = 0
              /\ Ent(m_registry, i).Position[1]
                     \in {PlayableMin(i, 1), PlayableMax(i, 1)}

\* C22: after the input system has run, the Velocity of every entity with
\* InputState, Velocity and Speed is the normalised input direction times
\* Speed: zero for zero input, and of magnitude Speed for every non-zero
\* input, a diagonal one included.
C22_VelocityIsNormalisedInput ==
    updates > 0 =>
        \A ran \in {input_system(before)} :
            \A i \in 0 .. Len(before.ent) - 1 :
                {"InputState", "Velocity", "Speed"} \subseteq Ent(before, i).has =>
                    LET in == Ent(before, i).InputState
                        v  == Ent(ran, i).Velocity
                        s  == Ent(before, i).Speed
                    IN  IF in.moveX = 0 /\ in.moveY = 0
                        THEN v = <<0, 0>>
                        ELSE v[1] * v[1] + v[2] * v[2] = s * s

\* C23: the lifetime system only subtracts dt from every Lifetime and
\* destroys nothing, and every entity whose Lifetime is at or below zero is
\* destroyed by the end of the same update: after an update no entity has a
\* Lifetime at or below zero.
C23_LifetimeExpiry ==
    updates > 0 =>
        /\ \A ran \in {lifetime_system(before, m_dt)} :
              /\ ran.alive = before.alive
              /\ ran.free = before.free
              /\ \A i \in 0 .. Len(before.ent) - 1 :
                    Ent(ran, i) =
                        (IF "Lifetime" \in Ent(before, i).has
                         THEN [Ent(before, i) EXCEPT
                                  !.Lifetime = f_sub(@, m_dt)]
                         ELSE Ent(before, i))
        /\ \A i \in 0 .. Len(m_registry.ent) - 1 :
              "Lifetime" \in Ent(m_registry, i).has =>
                  Ent(m_registry, i).Lifetime > 0

\* Without world bounds, a projectile in flight whose Lifetime the update
\* brought exactly to zero, and which damaged nothing, is gone after the
\* update.
C23_Witness ==
    /\ updates > 0
    /\ m_dt > 0
    /\ ~m_config.worldBounds.enabled
    /\ \E p \in 0 .. Len(before.ent) - 1 :
          /\ FlewBefore(p)
          /\ Ent(before, p).Lifetime > 0
          /\ f_sub(Ent(before, p).Lifetime, m_dt) = 0
          /\ TargetsHitBy(p) = {}
          /\ ~m_registry.alive[p + 1]

\* ------------------------------------------------------------- SpecSpawn
\* A configuration as the loader lets it through (it only warns about an
\* archetype whose weapon, or a weapon whose projectile, is undefined): the
\* archetype "ghost" names the undefined weapon "Laser", and the archetype
\* "dud" is armed with "Dud", whose projectile "Missing" is undefined.
FaultyWeaponDefs ==
    [Dud |-> [WeaponDefs.Gun EXCEPT !.projectileName = "Missing"]] @@ WeaponDefs

FaultyArchetypes ==
    [ghost |-> [Archetypes.drone EXCEPT !.name = "ghost",
                                        !.weaponName = "Laser"],
     dud   |-> [Archetypes.player EXCEPT !.name = "dud",
                                         !.weaponName = "Dud"]] @@ Archetypes

FaultyConfigs ==
    {[projectiles |-> ProjectileDefs, weapons |-> FaultyWeaponDefs,
      archetypes |-> FaultyArchetypes, worldBounds |-> NoBounds,
      playableBounds |-> NoBounds]}

\* The archetype names Engine::spawn is called with; "boss" is in no
\* configuration.
SpawnCallNames == {"player", "ghost", "dud", "boss"}

\* Engine(config) on a faulty configuration.
SpawnInit ==
    /\ _data = <<>>
    /\ sa_op = NoOp
    /\ ub = FALSE
    /\ RegInit
    /\ SysInit
    /\ ZipIdle
    /\ m_config \in FaultyConfigs
    /\ m_registry = EmptyRegistry
    /\ m_dt = 0
    /\ updates = 0
    /\ before = EmptyRegistry
    /\ trace = NoTrace
    /\ spawn_op = NoSpawn
    /\ CoolIdle
    /\ ChargeIdle
    /\ NetIdle
    /\ WorldIdle

SpawnNext ==
    \E a \in SpawnCallNames, p \in SpawnPoints : EngSpawn(a, p)

SpecSpawn == SpawnInit /\ [][SpawnNext]_vars

\* C24: Engine::spawn with an archetype name that is not in the
\* configuration, or with an archetype whose weapon name is not in the
\* configuration, raises and returns no entity; any other call returns the
\* entity it created without raising.
C24_UnknownNamesRaise ==
    spawn_op # NoSpawn =>
        LET known == spawn_op.name \in DOMAIN m_config.archetypes
            weapon == m_config.archetypes[spawn_op.name].weaponName
            faulty == ~known \/ (weapon # "" /\ weapon \notin DOMAIN m_config.weapons)
        IN  IF faulty
            THEN spawn_op.raised # "none" /\ spawn_op.ret = NoSpawn.ret
            ELSE /\ spawn_op.raised = "none"
                 /\ spawn_op.ret \in 0 .. Len(m_registry.ent) - 1
                 /\ m_registry.alive[spawn_op.ret + 1]
                 /\ Ent(m_registry, spawn_op.ret).ArchetypeRef = spawn_op.name

\* A call with the archetype "ghost", whose weapon is undefined, has raised
\* after calls that returned entities.
C24_Witness ==
    /\ spawn_op.name = "ghost"
    /\ spawn_op.raised = "Archetype references unknown weapon"
    /\ \E i \in 0 .. Len(m_registry.ent) - 1 :
          Ent(m_registry, i).ArchetypeRef = "player"

\* C25: Engine::spawn with an archetype whose weapon names a projectile that
\* is not in the configuration raises.
C25_UndefinedProjectileRaises ==
    ( /\ spawn_op # NoSpawn
      /\ spawn_op.name \in DOMAIN m_config.archetypes
      /\ m_config.archetypes[spawn_op.name].weaponName \in DOMAIN m_config.weapons
      /\ m_config.weapons[m_config.archetypes[spawn_op.name].weaponName]
             .projectileName \notin DOMAIN m_config.projectiles ) =>
        spawn_op.raised # "none"

\* C27: in steady state (the update created no entity index and no component
\* type) one Engine::update performs no dynamic memory allocation.  The code
\* reserves the local vector ents of handleCollisions in every update of a
\* registry that holds an entity.
C27_SteadyUpdateAllocatesNothing ==
    (updates > 0 /\ Len(m_registry.ent) = Len(before.ent)) => trace.heap = <<>>

\* ---------------------------------------------------------------- World
\* InternalConfig::archetypes as World::World builds it, in index order
\* (index i of the code is position i + 1).
ic_archetypes ==
    <<[name |-> "hero", respawnable |-> TRUE, hasHealth |-> TRUE, health |-> 2,
       collision |-> TRUE, lookX |-> 0, lookY |-> 0, weaponIndex |-> 0,
       targetNames |-> <<"rock", "nobody">>],
      [name |-> "rock", respawnable |-> FALSE, hasHealth |-> FALSE,
       health |-> 0, collision |-> TRUE, lookX |-> 0, lookY |-> 2,
       weaponIndex |-> 0 - 1, targetNames |-> <<>>]>>

\* InternalConfig::archetypeIndexByName.find: the index, or no_index for
\* end().
archetypeIndexByName(name) ==
    IF \E i \in 1 .. Len(ic_archetypes) : ic_archetypes[i].name = name
    THEN (CHOOSE i \in 1 .. Len(ic_archetypes) : ic_archetypes[i].name = name) - 1
    ELSE no_index

\* The archetype names and the points the callers spawn with.
WorldSpawnNames == {"hero", "rock", "nobody"}
WorldSpawnPoints == {<<0, 0>>, <<3, 1>>}

\* normalize of ecs_world.cpp.  The look directions configured here lie on
\* an axis, where the square root and the divisions are exact.
world_normalize(x, y) ==
    LET len == sqrt(x * x + y * y)
    IN  IF len > 0 THEN <<x \div len, y \div len>> ELSE <<1, 0>>

\* Mutant: a full pool hands out the highest index once more.
allocateEntity_reuses_last(m) ==
    LET id == IF m.freeIds = <<>> THEN m_maxEntities - 1
              ELSE m.freeIds[Len(m.freeIds)]
    IN  [m |-> [m EXCEPT !.freeIds = IF @ = <<>> THEN @
                                     ELSE SubSeq(@, 1, Len(@) - 1),
                         !.alive[id] = TRUE],
         e |-> [id |-> id, generation |-> m.generations[id]]]

\* World::allocateEntity: [m, e], the Impl after the call and the handle
\* returned.
allocateEntity(m) ==
    IF m.freeIds = <<>>
    THEN [m |-> m, e |-> InvalidEntity]
    ELSE LET id == m.freeIds[Len(m.freeIds)]
         IN  [m |-> [m EXCEPT !.freeIds = SubSeq(@, 1, Len(@) - 1),
                              !.alive[id] = TRUE],
              e |-> [id |-> id, generation |-> m.generations[id]]]

\* World::validateEntity.
validateEntity(m, e) ==
    /\ isValid(e)
    /\ e.id < m_maxEntities
    /\ m.generations[e.id] = e.generation

\* World::isAlive.
isAlive(m, e) == validateEntity(m, e) /\ m.alive[e.id]

\* World::releaseEntity: the slots are cleared, the generation of the index
\* is incremented in its width and the index goes back to the free ids.
releaseEntity(m, e) ==
    IF ~validateEntity(m, e) THEN m
    ELSE [m EXCEPT
            !.alive[e.id] = FALSE,
            !.soa[e.id] = [@ EXCEPT
                !.frozen = FALSE, !.hasPosition = FALSE, !.hasVelocity = FALSE,
                !.hasLook = FALSE, !.hasHealth = FALSE, !.hasCollision = FALSE,
                !.hasArchetype = FALSE, !.hasWeapon = FALSE,
                !.weaponIndex = 0 - 1, !.fireCooldown = 0,
                !.hasLifetime = FALSE, !.isProjectile = FALSE,
                !.projectileIndex = 0 - 1, !.projectileOwner = InvalidEntity,
                !.projectileDamage = 0, !.targetPriorities = <<>>,
                !.respawnable = FALSE],
            !.generations[e.id] = (@ + 1) % (2 ^ GenBits),
            !.freeIds = Append(@, e.id)]

\* World::pushEvent of an event of the given type about e.
pushEvent(m, type, e) ==
    [m EXCEPT !.eventQueue = Append(@, [type |-> type, entity |-> e])]

\* The targetPriorities loop of spawnImmediate: the indices of the target
\* names that are archetypes, in order.
RECURSIVE target_indices(_, _)
target_indices(names, k) ==
    IF k > Len(names) THEN <<>>
    ELSE (IF archetypeIndexByName(names[k]) # no_index
          THEN <<archetypeIndexByName(names[k])>> ELSE <<>>)
         \o target_indices(names, k + 1)

\* World::spawnImmediate: [m, e].
spawnImmediate(m, archetypeName, x, y) ==
    LET archIndex == archetypeIndexByName(archetypeName)
        arch == ic_archetypes[archIndex + 1]
        a == allocateEntity(m)
        look == world_normalize(arch.lookX, arch.lookY)
        armed == arch.weaponIndex >= 0
    IN  IF archIndex = no_index THEN [m |-> m, e |-> InvalidEntity]
        ELSE IF ~isValid(a.e) THEN [m |-> a.m, e |-> a.e]
        ELSE [m |-> pushEvent(
                     [a.m EXCEPT !.soa[a.e.id] = [@ EXCEPT
                        !.hasArchetype = TRUE, !.archetypeIndex = archIndex,
                        !.respawnable = arch.respawnable,
                        !.hasPosition = TRUE, !.posX = x, !.posY = y,
                        !.hasLook = TRUE, !.lookX = look[1], !.lookY = look[2],
                        !.hasHealth = arch.hasHealth, !.health = arch.health,
                        !.hasCollision = arch.collision,
                        !.hasWeapon = armed,
                        !.weaponIndex = IF armed THEN arch.weaponIndex
                                        ELSE 0 - 1,
                        !.fireCooldown = 0,
                        !.hasVelocity = FALSE, !.velX = 0, !.velY = 0,
                        !.hasLifetime = FALSE, !.isProjectile = FALSE,
                        !.projectileIndex = 0 - 1,
                        !.projectileOwner = InvalidEntity,
                        !.projectileDamage = 0,
                        !.targetPriorities =
                            target_indices(arch.targetNames, 1)]],
                     "EntitySpawned", a.e),
              e |-> a.e]

\* World::destroyImmediate.
destroyImmediate(m, e) ==
    IF ~validateEntity(m, e) THEN m
    ELSE releaseEntity(pushEvent(m, "EntityDestroyed", e), e)

\* World::pollEvent: [m, ev], ev the event taken or its type "nullopt".
pollEvent(m) ==
    IF m.eventQueue = <<>>
    THEN [m |-> m, ev |-> [type |-> "nullopt", entity |-> InvalidEntity]]
    ELSE [m |-> [m EXCEPT !.eventQueue = Tail(@)], ev |-> m.eventQueue[1]]

\* A SpawnEntity command processed: processSpawnCommand calls
\* spawnImmediate.
WorldSpawn(archetypeName, p) ==
    /\ world_calls < MaxWorldCalls
    /\ world_calls' = world_calls + 1
    /\ \E s \in {spawnImmediate(m_impl, archetypeName, p[1], p[2])} :
          /\ m_impl' = s.m
          /\ world_op' = [op |-> "spawn", name |-> archetypeName,
                          arg |-> InvalidEntity, ret |-> s.e]
          /\ issued' = issued \union (IF isValid(s.e) THEN {s.e} ELSE {})
    /\ impl_before' = m_impl
    /\ UNCHANGED <<destroyed, netVars, chargeVars, coolVars, engVars, storeVars, regVars, sysVars, zipVars, ub>>

\* A DestroyEntity command processed: processDestroyCommand calls
\* destroyImmediate, with a handle the callers hold or the invalid one.
WorldDestroy(e) ==
    /\ world_calls < MaxWorldCalls
    /\ world_calls' = world_calls + 1
    /\ m_impl' = destroyImmediate(m_impl, e)
    /\ world_op' = [op |-> "destroy", name |-> "", arg |-> e,
                    ret |-> InvalidEntity]
    /\ destroyed' = destroyed \union (IF isAlive(m_impl, e) THEN {e} ELSE {})
    /\ impl_before' = m_impl
    /\ UNCHANGED <<issued, netVars, chargeVars, coolVars, engVars, storeVars, regVars, sysVars, zipVars, ub>>

\* World::pollEvent called by the main thread.
WorldPollEvent ==
    /\ world_calls < MaxWorldCalls
    /\ world_calls' = world_calls + 1
    /\ \E s \in {pollEvent(m_impl)} :
          /\ m_impl' = s.m
          /\ world_op' = [op |-> "pollEvent", name |-> s.ev.type,
                          arg |-> InvalidEntity, ret |-> s.ev.entity]
    /\ impl_before' = m_impl
    /\ UNCHANGED <<issued, destroyed, netVars, chargeVars, coolVars, engVars, storeVars, regVars, sysVars,
                   zipVars, ub>>

WorldNext ==
    \/ \E a \in WorldSpawnNames, p \in WorldSpawnPoints : WorldSpawn(a, p)
    \/ \E e \in issued \union {InvalidEntity} : WorldDestroy(e)
    \/ WorldPollEvent

SpecWorld == Init /\ [][WorldNext]_vars

Stranger == [s_addr |-> 9, sin_port |-> 9]
\* The addresses (sin_addr.s_addr, sin_port) well-formed packets come from:
\* one more than there are slots, two of them on the same host.
Senders ==
    {[s_addr |-> 1, sin_port |-> 7], [s_addr |-> 1, sin_port |-> 8],
     [s_addr |-> 2, sin_port |-> 7], [s_addr |-> 3, sin_port |-> 7],
     [s_addr |-> 4, sin_port |-> 7]}
\* The input sequence number every client sends, and an earlier one that
\* the first client sends too, before or after it.
InputSequences == {3}
EarlierSequence == 2
FirstClient == [s_addr |-> 1, sin_port |-> 7]

\* What recvfrom hands to pollInputs: a well-formed InputPacket, or one that
\* is too short, has the magic of a snapshot or another protocol version, or
\* nothing at all.
Datagrams ==
    {[n |-> InputPacketSize, sender |-> s, magic |-> INPUT_MAGIC,
      protocolVersion |-> PROTOCOL_VERSION, inputSequence |-> q] :
        s \in Senders, q \in InputSequences}
    \union {[n |-> InputPacketSize, sender |-> FirstClient,
             magic |-> INPUT_MAGIC, protocolVersion |-> PROTOCOL_VERSION,
             inputSequence |-> EarlierSequence]}
    \union {[n |-> InputPacketSize - 1, sender |-> s, magic |-> INPUT_MAGIC,
             protocolVersion |-> PROTOCOL_VERSION, inputSequence |-> 1] :
                s \in {Stranger}}
    \union {[n |-> InputPacketSize, sender |-> s, magic |-> SNAP_MAGIC,
             protocolVersion |-> PROTOCOL_VERSION, inputSequence |-> 1] :
                s \in {Stranger}}
    \union {[n |-> InputPacketSize, sender |-> s, magic |-> INPUT_MAGIC,
             protocolVersion |-> PROTOCOL_VERSION + 1, inputSequence |-> 1] :
                s \in {Stranger}}
    \union {NoDatagram}

\* Mutant: a client is recognised by its host address alone.
findClient_by_host(clients, addr) ==
    IF \E i \in 0 .. MAX_DEFAULT_CLIENTS - 1 :
            clients[i].active /\ clients[i].addr.s_addr = addr.s_addr
    THEN CHOOSE i \in 0 .. MAX_DEFAULT_CLIENTS - 1 :
            /\ clients[i].active /\ clients[i].addr.s_addr = addr.s_addr
            /\ \A j \in 0 .. i - 1 :
                  ~(clients[j].active /\ clients[j].addr.s_addr = addr.s_addr)
    ELSE MAX_DEFAULT_CLIENTS

\* Server::findClient: the first active slot with this address and port, or
\* MAX_DEFAULT_CLIENTS.
findClient(clients, addr) ==
    IF \E i \in 0 .. MAX_DEFAULT_CLIENTS - 1 :
            clients[i].active /\ clients[i].addr = addr
    THEN CHOOSE i \in 0 .. MAX_DEFAULT_CLIENTS - 1 :
            /\ clients[i].active /\ clients[i].addr = addr
            /\ \A j \in 0 .. i - 1 :
                  ~(clients[j].active /\ clients[j].addr = addr)
    ELSE MAX_DEFAULT_CLIENTS

\* Server::findFreeSlot: the first inactive slot, or MAX_DEFAULT_CLIENTS.
findFreeSlot(clients) ==
    IF \E i \in 0 .. MAX_DEFAULT_CLIENTS - 1 : ~clients[i].active
    THEN CHOOSE i \in 0 .. MAX_DEFAULT_CLIENTS - 1 :
            ~clients[i].active /\ \A j \in 0 .. i - 1 : clients[j].active
    ELSE MAX_DEFAULT_CLIENTS

\* Server::pollInputs on the datagram d: [clients, idx, newClient, input],
\* idx the slot the packet was taken for (MAX_DEFAULT_CLIENTS when it was
\* dropped) and the two flags whether each callback was invoked.
pollInputs(clients, onNewClient, onInput, d) ==
    LET dropped == [clients |-> clients, idx |-> MAX_DEFAULT_CLIENTS,
                    newClient |-> FALSE, input |-> FALSE]
        known == findClient(clients, d.sender)
        free == findFreeSlot(clients)
        idx == IF known = MAX_DEFAULT_CLIENTS THEN free ELSE known
        bound == IF known = MAX_DEFAULT_CLIENTS
                 THEN [clients EXCEPT ![idx] =
                        [active |-> TRUE, addr |-> d.sender,
                         lastReceivedInput |-> 0, lastProcessedInput |-> 0,
                         snapshotCounter |-> 0]]
                 ELSE clients
    IN  IF d.n <= 0 THEN dropped
        ELSE IF d.n < InputPacketSize THEN dropped
        ELSE IF d.magic # INPUT_MAGIC \/ d.protocolVersion # PROTOCOL_VERSION
        THEN dropped
        ELSE IF idx = MAX_DEFAULT_CLIENTS THEN dropped
        ELSE [clients |-> [bound EXCEPT
                             ![idx].lastReceivedInput = d.inputSequence],
              idx |-> idx,
              newClient |-> known = MAX_DEFAULT_CLIENTS /\ onNewClient,
              input |-> onInput]

\* Server::sendSnapshot: [clients, sent, header], header the SnapshotHeader
\* of the datagram when one was sent.  entities is the size of the vector
\* given.
sendSnapshot(clients, slotIndex, controlledId, lastProcessedInput, entities, serverFrame) ==
    IF slotIndex >= MAX_DEFAULT_CLIENTS
    THEN [clients |-> clients, sent |-> FALSE, header |-> NoHeader]
    ELSE IF ~clients[slotIndex].active
    THEN [clients |-> clients, sent |-> FALSE, header |-> NoHeader]
    ELSE [clients |-> [clients EXCEPT ![slotIndex].snapshotCounter =
                            (@ + 1) % (2 ^ SnapBits)],
          sent |-> TRUE,
          header |-> [snapshotId |-> clients[slotIndex].snapshotCounter,
                      controlledId |-> controlledId,
                      lastProcessedInput |-> lastProcessedInput,
                      serverFrame |-> serverFrame,
                      entityCount |-> IF entities > MAX_ENTITIES
                                      THEN MAX_ENTITIES ELSE entities]]

\* Server::setCallbacks, either overload: with or without onNewClient.
NetSetCallbacks(withNewClient) ==
    /\ net_calls < MaxNetCalls
    /\ net_calls' = net_calls + 1
    /\ _onNewClient' = (_onNewClient \/ withNewClient)
    /\ _onInput' = TRUE
    /\ net_op' = [NoNetOp EXCEPT !.op = "setCallbacks"]
    /\ clients_before' = _clients
    /\ UNCHANGED <<_clients, served, last_sent, worldVars, chargeVars, coolVars, engVars, storeVars,
                   regVars, sysVars, zipVars, ub>>

\* Server::pollInputs, recvfrom giving the datagram d.
NetPollInputs(d) ==
    /\ net_calls < MaxNetCalls
    /\ net_calls' = net_calls + 1
    /\ \E r \in {pollInputs(_clients, _onNewClient, _onInput, d)} :
          /\ _clients' = r.clients
          /\ net_op' = [NoNetOp EXCEPT !.op = "pollInputs", !.slot = r.idx,
                                       !.dgram = d, !.newClient = r.newClient,
                                       !.input = r.input]
          /\ served' = served \union
                (IF r.idx = MAX_DEFAULT_CLIENTS THEN {}
                 ELSE {<<d.sender, r.idx, d.inputSequence>>})
    /\ clients_before' = _clients
    /\ UNCHANGED <<_onNewClient, _onInput, last_sent, worldVars, chargeVars, coolVars, engVars,
                   storeVars, regVars, sysVars, zipVars, ub>>

\* Server::sendSnapshot(slotIndex, 0, 0, entities) with a vector of the
\* given size.
NetSendSnapshot(slotIndex, entities) ==
    /\ net_calls < MaxNetCalls
    /\ net_calls' = net_calls + 1
    /\ \E r \in {sendSnapshot(_clients, slotIndex, 0, 0, entities, 0)} :
          /\ _clients' = r.clients
          /\ net_op' = [NoNetOp EXCEPT
                          !.op = "sendSnapshot", !.slot = slotIndex,
                          !.sent = r.sent, !.header = r.header,
                          !.prevId = IF slotIndex < MAX_DEFAULT_CLIENTS
                                     THEN last_sent[slotIndex] ELSE 0 - 1]
          /\ last_sent' = IF r.sent
                          THEN [last_sent EXCEPT
                                  ![slotIndex] = r.header.snapshotId]
                          ELSE last_sent
    /\ clients_before' = _clients
    /\ UNCHANGED <<_onNewClient, _onInput, served, worldVars, chargeVars, coolVars, engVars,
                   storeVars, regVars, sysVars, zipVars, ub>>

NetNext ==
    \/ \E withNewClient \in BOOLEAN : NetSetCallbacks(withNewClient)
    \/ \E d \in Datagrams : NetPollInputs(d)
    \/ \E slotIndex \in 0 .. MAX_DEFAULT_CLIENTS,
          entities \in {MAX_ENTITIES + 1} :
            NetSendSnapshot(slotIndex, entities)

SpecNet == Init /\ [][NetNext]_vars

\* The last call was pollInputs on a well-formed input packet.
ValidInputPolled ==
    /\ net_op.op = "pollInputs"
    /\ net_op.dgram.n >= InputPacketSize
    /\ net_op.dgram.magic = INPUT_MAGIC
    /\ net_op.dgram.protocolVersion = PROTOCOL_VERSION

\* The address was bound to an active slot when the last call was made.
WasBound(addr) ==
    \E i \in 0 .. MAX_DEFAULT_CLIENTS - 1 :
        clients_before[i].active /\ clients_before[i].addr = addr

\* C29: a valid input packet from an address bound to no active slot binds
\* the address to a slot that was free, if there was one, and is otherwise
\* ignored (no callback, no slot changed); an active slot stays active and
\* keeps its address; at most MAX_DEFAULT_CLIENTS senders are ever served
\* and a sender is always served in the same slot.
C29_SlotBinding ==
    /\ (ValidInputPolled /\ ~WasBound(net_op.dgram.sender)) =>
          IF \E i \in 0 .. MAX_DEFAULT_CLIENTS - 1 : ~clients_before[i].active
          THEN /\ net_op.slot < MAX_DEFAULT_CLIENTS
               /\ ~clients_before[net_op.slot].active
               /\ _clients[net_op.slot].active
               /\ _clients[net_op.slot].addr = net_op.dgram.sender
               /\ net_op.newClient = _onNewClient
               /\ net_op.input = _onInput
          ELSE /\ ~net_op.newClient
               /\ ~net_op.input
               /\ _clients = clients_before
    /\ \A i \in 0 .. MAX_DEFAULT_CLIENTS - 1 :
          clients_before[i].active =>
              /\ _clients[i].active
              /\ _clients[i].addr = clients_before[i].addr
    /\ Cardinality({p[1] : p \in served}) <= MAX_DEFAULT_CLIENTS
    /\ \A p \in served, q \in served : p[1] = q[1] => p[2] = q[2]

\* With both callbacks set and every slot taken, a valid packet of a fifth
\* sender was polled, MAX_DEFAULT_CLIENTS senders having been served.
C29_Witness ==
    /\ ValidInputPolled
    /\ ~WasBound(net_op.dgram.sender)
    /\ \A i \in 0 .. MAX_DEFAULT_CLIENTS - 1 : clients_before[i].active
    /\ _onNewClient /\ _onInput
    /\ Cardinality({p[1] : p \in served}) = MAX_DEFAULT_CLIENTS

\* C30: a sendSnapshot to an active slot puts the slot's counter in the
\* header and leaves it one higher, every other slot as it was, so that the
\* ids sent to a slot increase; to an inactive or out-of-range slot it sends
\* nothing and changes no counter.
C30_SnapshotIdsIncrease ==
    net_op.op = "sendSnapshot" =>
        IF net_op.slot < MAX_DEFAULT_CLIENTS /\ clients_before[net_op.slot].active
        THEN /\ net_op.sent
             /\ net_op.header.snapshotId =
                    clients_before[net_op.slot].snapshotCounter
             /\ _clients[net_op.slot].snapshotCounter =
                    clients_before[net_op.slot].snapshotCounter + 1
             /\ \A i \in 0 .. MAX_DEFAULT_CLIENTS - 1 :
                    i # net_op.slot => _clients[i] = clients_before[i]
             /\ net_op.prevId < net_op.header.snapshotId
        ELSE /\ ~net_op.sent
             /\ _clients = clients_before

\* The input sequence numbers of the packets taken for slot i so far.
ReceivedBy(i) == {p[3] : p \in {q \in served : q[2] = i}}

\* C31: the lastReceivedInput of every slot that has taken a packet is the
\* highest input sequence number received from its client so far, in
\* whatever order the packets arrived.
C31_LastReceivedIsHighest ==
    \A i \in 0 .. MAX_DEFAULT_CLIENTS - 1 :
        ReceivedBy(i) # {} =>
            /\ _clients[i].lastReceivedInput \in ReceivedBy(i)
            /\ \A q \in ReceivedBy(i) : q <= _clients[i].lastReceivedInput

\* The registry of the last update after run_systems, as it entered
\* resolveSolidCollisions.
BeforeResolve ==
    engine_run_systems(m_config,
        [alive |-> before.alive, free |-> before.free, ent |-> before.ent,
         log |-> <<>>, hits |-> <<>>, shots |-> <<>>, heap |-> <<>>],
        registerSystems, 1, m_dt, "intact")

\* Whether the layer/mask words of entities a and b of registry w meet.
MasksMeet(w, a, b) ==
    \/ bit_and(Ent(w, a).Collider.mask, Ent(w, b).Collider.layer) # {}
    \/ bit_and(Ent(w, b).Collider.mask, Ent(w, a).Collider.layer) # {}

\* C32: of two solid, non-static colliders whose layer/mask words meet, the
\* one with the lower index is the immovable side: its DesiredPosition is
\* not clamped against the other (with no third solid around, solid
\* resolution leaves it as the systems computed it), and the one with the
\* higher index, driven along X towards it, is kept from overlapping it.
C32_LowerIndexImmovable ==
    updates > 0 =>
        \A un \in {BeforeResolve} : \A lo, hi \in 0 .. Len(before.ent) - 1 :
            ( /\ lo < hi
              /\ MovableSolid(un, lo) /\ MovableSolid(un, hi)
              /\ "DesiredPosition" \in Ent(un, lo).has
              /\ MasksMeet(un, lo, hi) ) =>
                /\ (\A k \in 0 .. Len(un.ent) - 1 :
                        k \notin {lo, hi} => ~MovableSolid(un, k)
                                             /\ ~solid_blocker(un, lo, k)) =>
                       Ent(resolveSolidCollisions(un), lo).DesiredPosition
                           = Ent(un, lo).DesiredPosition
                /\ ( /\ OverlapY(before, lo, hi)
                     /\ ~OverlapX(before, lo, hi)
                     /\ DrivenToward(before, hi, lo, m_dt)
                     /\ m_registry.alive[lo + 1]
                     /\ m_registry.alive[hi + 1] ) =>
                       ~OverlapX(m_registry, lo, hi)

\* ---------------------------------------------------------------------------
\* The charge level of a shot, for every ChargeSpec the loader can produce.
\* ---------------------------------------------------------------------------

\* ChargeSpec::thresholds as loaded: the numbers of the Lua list in the order
\* they were written, of any length.
ThresholdLists == UNION {[1 .. n -> 0 .. MaxChargeTime] : n \in 0 .. MaxThresholds}

\* ChargeSpec::levels as loaded: n ChargeLevel records.
ChargeLevels(n) == [i \in 1 .. n |-> [damageMul |-> i, speedMul |-> i, sizeMul |-> 1, piercingHits |-> i - 1]]

\* A weapon whose button is released after any accumulated charge time.
Shots == {[charge |-> [maxTime |-> MaxChargeTime, thresholds |-> t, levels |-> ChargeLevels(n)], chargeTimeAccum |-> a, chargeLevel |-> 0, fired |-> FALSE] : t \in ThresholdLists, n \in 0 .. MaxThresholds, a \in 0 .. MaxChargeTime}

ChargeInit ==
    /\ _data = <<>>
    /\ sa_op = NoOp
    /\ ub = FALSE
    /\ RegInit
    /\ SysInit
    /\ ZipIdle
    /\ m_config = "none"
    /\ m_registry = EmptyRegistry
    /\ m_dt = 0
    /\ updates = 0
    /\ before = EmptyRegistry
    /\ trace = NoTrace
    /\ spawn_op = NoSpawn
    /\ CoolIdle
    /\ NetIdle
    /\ WorldIdle
    /\ shot \in Shots

\* The weapon system's release branch: the level is computed and stored.
ChargeFire ==
    /\ ~shot.fired
    /\ shot' = [shot EXCEPT !.chargeLevel = charge_level(shot.charge, shot.chargeTimeAccum), !.fired = TRUE]
    /\ UNCHANGED <<storeVars, regVars, sysVars, zipVars, worldVars, netVars, coolVars, engVars, ub>>

ChargeNext == ChargeFire

SpecCharge == ChargeInit /\ [][ChargeNext]_vars

\* The thresholds of the shot that the accumulated time has reached, and
\* among them the positions of the highest one.
ReachedThresholds == {i \in 1 .. Len(shot.charge.thresholds) : shot.charge.thresholds[i] <= shot.chargeTimeAccum}
HighestReached == {i \in ReachedThresholds : \A j \in ReachedThresholds : shot.charge.thresholds[j] <= shot.charge.thresholds[i]}
ClampedToLevels(level) == IF shot.charge.levels # <<>> /\ level >= Len(shot.charge.levels) THEN Len(shot.charge.levels) - 1 ELSE level

\* C33: when a shot fires, the stored charge level is the level of the
\* highest threshold that does not exceed the accumulated charge time,
\* clamped to the last configured level, whatever the order and length of the
\* threshold list; a time below every threshold gives level 0.
C33_LevelOfHighestThreshold ==
    shot.fired =>
        IF ReachedThresholds = {}
        THEN shot.chargeLevel = 0
        ELSE shot.chargeLevel \in {ClampedToLevels(i - 1) : i \in HighestReached}

\* ---------------------------------------------------------------------------
\* The AI system's choice of a target, for every kind of target list.
\* ---------------------------------------------------------------------------

\* Bounds of the worlds explored: the entities around the armed one, and
\* its range.
MaxOthers == 2
AiRange == 2

\* TargetList components: no category, one category in either mode, two
\* categories, and a category no entity belongs to.
TargetLists ==
    {TargetList(<<>>, <<>>),
     TargetList(<<"player">>, <<>>),
     TargetList(<<"player">>, [player |-> "closest"]),
     TargetList(<<"drone", "player">>, [player |-> "closest_in_class"]),
     TargetList(<<"player", "drone">>, [drone |-> "priority"]),
     TargetList(<<"boss">>, [boss |-> "closest"])}

\* The armed entity at the origin: faction 1, its weapon ready or cooling.
Turrets ==
    {[NoEntity EXCEPT
        !.has = {"WeaponRef", "InputState", "Position", "LookDirection", "Faction", "Range", "TargetList", "ArchetypeRef"},
        !.Faction = 1, !.Range = AiRange, !.ArchetypeRef = "drone",
        !.LookDirection = <<0, 0 - 1>>,
        !.WeaponRef = WeaponRef("Blaster", 0, t), !.TargetList = l] : t \in {0, 1}, l \in TargetLists}

\* The entities around it: two at distance 1, one at the edge of the range,
\* one beyond it; of its faction or of another; of either archetype.
Others ==
    {[NoEntity EXCEPT
        !.has = {"Position", "Faction", "ArchetypeRef"},
        !.Position = p, !.Faction = f, !.ArchetypeRef = a] : p \in {<<1, 0>>, <<0, 1>>, <<AiRange, 0>>, <<AiRange + 2, 0>>}, f \in {0, 1}, a \in {"player", "drone"}}

\* The registries the AI system is run on.
AiWorlds ==
    {[alive |-> [i \in 1 .. MaxOthers + 1 |-> TRUE], free |-> <<>>, ent |-> <<t>> \o o] : t \in Turrets, o \in [1 .. MaxOthers -> Others]}

AiInit ==
    /\ _data = <<>>
    /\ sa_op = NoOp
    /\ ub = FALSE
    /\ RegInit
    /\ SysInit
    /\ ZipIdle
    /\ m_config \in Configs
    /\ m_registry \in AiWorlds
    /\ m_dt = 0
    /\ updates = 0
    /\ before = EmptyRegistry
    /\ trace = NoTrace
    /\ spawn_op = NoSpawn
    /\ CoolIdle
    /\ ChargeIdle
    /\ NetIdle
    /\ WorldIdle

\* One call of the AI system by run_systems.
AiRun ==
    /\ updates = 0
    /\ m_registry' = registry_of(call_system(m_config, [alive |-> m_registry.alive, free |-> m_registry.free, ent |-> m_registry.ent, log |-> <<>>, hits |-> <<>>, shots |-> <<>>, heap |-> <<>>], "ai", m_dt, "intact"))
    /\ updates' = updates + 1
    /\ before' = m_registry
    /\ UNCHANGED <<coolVars, chargeVars, netVars, worldVars, m_config, m_dt, trace, spawn_op, ub, storeVars, regVars, sysVars, zipVars>>

AiNext == AiRun

SpecAi == AiInit /\ [][AiNext]_vars

\* The entities of another faction within the range of i, and those of them
\* of one archetype.
InRangeOthers(w, i) == {j \in (0 .. Len(w.ent) - 1) \ {i} : {"Position", "Faction"} \subseteq Ent(w, j).has /\ Ent(w, j).Faction # Ent(w, i).Faction /\ dist_sq(w, i, j) <= Ent(w, i).Range * Ent(w, i).Range}
OfArchetype(w, i, cat) == {j \in InRangeOthers(w, i) : "ArchetypeRef" \in Ent(w, j).has /\ Ent(w, j).ArchetypeRef = cat}
\* The closest members of S, and the lowest index of a set of indices.
Closest(w, i, S) == {j \in S : \A k \in S : dist_sq(w, i, j) <= dist_sq(w, i, k)}
Lowest(S) == CHOOSE j \in S : \A k \in S : j <= k
\* The positions of the target list of i whose category has an entity.
Matching(w, i) == {k \in 1 .. Len(Ent(w, i).TargetList.names) : OfArchetype(w, i, Ent(w, i).TargetList.names[k]) # {}}
ClosestMode(w, i, cat) == cat \in DOMAIN Ent(w, i).TargetList.modes /\ Ent(w, i).TargetList.modes[cat] \in {"closest", "closest_in_class"}
\* The target the rule gives entity i, no_index when it gives none.
RuledTarget(w, i) ==
    IF Ent(w, i).TargetList.names = <<>>
    THEN (IF InRangeOthers(w, i) = {} THEN no_index ELSE Lowest(Closest(w, i, InRangeOthers(w, i))))
    ELSE IF Matching(w, i) = {} THEN no_index
    ELSE IF ClosestMode(w, i, Ent(w, i).TargetList.names[Lowest(Matching(w, i))])
         THEN Lowest(Closest(w, i, OfArchetype(w, i, Ent(w, i).TargetList.names[Lowest(Matching(w, i))])))
         ELSE Lowest(OfArchetype(w, i, Ent(w, i).TargetList.names[Lowest(Matching(w, i))]))
\* Whether the AI system considers entity i at all.
AiArmed(w, i) == {"WeaponRef", "InputState", "Position", "LookDirection", "Faction", "Range", "TargetList"} \subseteq Ent(w, i).has /\ Ent(w, i).Faction # 0 /\ Ent(w, i).WeaponRef.timer <= 0

\* C34: an armed entity of a non-zero faction whose weapon timer is at or
\* below zero aims at the target of the rule: the first category of its list
\* that has an in-range entity of another faction decides, by lowest index
\* or, in a closest mode, by distance with ties to the lowest index; an empty
\* list means the closest in-range entity of another faction; a list without
\* a match means no target.  The target is never itself nor of its faction,
\* and only with a target are LookDirection turned toward it and firePressed
\* and fireReleased set; every other entity is left as it was.
C34_AiTargetRule ==
    updates > 0 =>
        \A i \in 0 .. Len(before.ent) - 1 :
            IF AiArmed(before, i) /\ RuledTarget(before, i) # no_index
            THEN /\ RuledTarget(before, i) # i
                 /\ Ent(before, RuledTarget(before, i)).Faction # Ent(before, i).Faction
                 /\ PointsToward(Ent(m_registry, i).LookDirection, Ent(before, i).Position, Ent(before, RuledTarget(before, i)).Position)
                 /\ Ent(m_registry, i).InputState.firePressed
                 /\ Ent(m_registry, i).InputState.fireReleased
            ELSE Ent(m_registry, i) = Ent(before, i)

\* The AI system has chosen, in a closest mode, between two equally close
\* entities of the deciding category.
C34_Witness ==
    /\ updates > 0
    /\ Len(before.ent) > 0
    /\ AiArmed(before, 0)
    /\ Matching(before, 0) # {}
    /\ ClosestMode(before, 0, Ent(before, 0).TargetList.names[Lowest(Matching(before, 0))])
    /\ Cardinality(Closest(before, 0, OfArchetype(before, 0, Ent(before, 0).TargetList.names[Lowest(Matching(before, 0))]))) > 1
    /\ Ent(m_registry, 0).InputState.firePressed
    /\ Ent(m_registry, 0).LookDirection # Ent(before, 0).LookDirection

\* ---------------------------------------------------------------------------
\* A projectile in flight among targets, over several updates.
\* ---------------------------------------------------------------------------

\* Bound of the pierce budgets explored.
MaxPierce == 3

\* The projectile at the origin, at rest or drifting, without Piercing or
\* with a budget of 0 .. MaxPierce and an empty hit-set.
InFlight ==
    {[NoEntity EXCEPT
        !.has = {"Position", "Velocity", "Lifetime", "Damage", "Hitbox", "Collider", "Faction"} \cup k[1],
        !.Velocity = v, !.Lifetime = 5, !.Damage = 1, !.Hitbox = Hitbox(1, 1, 0, 0),
        !.Collider = Collider({4}, {2}, FALSE, TRUE, FALSE), !.Faction = 0,
        !.Piercing = Piercing(k[2], {})] : v \in {<<0, 0>>, <<1, 0>>}, k \in {<<{}, 0>>} \cup {<<{"Piercing"}, n>> : n \in 0 .. MaxPierce}}

\* A target: on the projectile, beside it or far from it; weak or sturdy;
\* of the projectile's faction or of another.
Targets ==
    {[NoEntity EXCEPT
        !.has = {"Position", "Health", "Hitbox", "Collider", "Faction"},
        !.Position = p, !.Health = h, !.Hitbox = Hitbox(1, 1, 0, 0),
        !.Collider = Collider({2}, {4}, FALSE, TRUE, FALSE), !.Faction = f] : p \in {<<0, 0>>, <<2, 0>>, <<9, 0>>}, h \in {1, 3}, f \in {0, 1}}

PierceWorlds ==
    {[alive |-> <<TRUE, TRUE, TRUE>>, free |-> <<>>, ent |-> <<p, t, u>>] : p \in InFlight, t \in Targets, u \in Targets}

PierceInit ==
    /\ _data = <<>>
    /\ sa_op = NoOp
    /\ ub = FALSE
    /\ RegInit
    /\ SysInit
    /\ ZipIdle
    /\ m_config \in Configs
    /\ m_registry \in PierceWorlds
    /\ m_dt = 0
    /\ updates = 0
    /\ before = EmptyRegistry
    /\ trace = NoTrace
    /\ spawn_op = NoSpawn
    /\ CoolIdle
    /\ ChargeIdle
    /\ NetIdle
    /\ WorldIdle

PierceNext == \E dt \in Steps, read \in DanglingReads : EngUpdate(dt, read)

SpecPierce == PierceInit /\ [][PierceNext]_vars

\* The additions of damage projectile p made to target t in the last update.
HitsOn(p, t) == {n \in 1 .. Len(trace.hits) : trace.hits[n].kind = "projectile" /\ trace.hits[n].source = p /\ trace.hits[n].target = t}

EngRespawn(archetypeName, p) ==
    /\ updates > 0
    /\ m_registry.free # <<>>
    /\ \E s \in {spawn(m_config, m_registry, archetypeName, p[1], p[2])} :
          /\ m_registry' = s.w
          /\ spawn_op' = [name |-> archetypeName, ret |-> s.ret,
                          raised |-> s.raised]
    /\ before' = m_registry
    /\ UNCHANGED <<coolVars, chargeVars, netVars, worldVars, m_config, m_dt, updates, trace, ub, storeVars, regVars, sysVars, zipVars>>

ReuseNext ==
    \/ \E a \in SpawnNames, p \in SpawnPoints : EngSpawn(a, p)
    \/ \E dt \in Steps, read \in DanglingReads : EngUpdate(dt, read)
    \/ \E a \in SpawnNames, p \in SpawnPoints : EngRespawn(a, p)

SpecReuse == EngInit /\ [][ReuseNext]_vars

\* The spawn points p for which the registry is the one Engine::spawn of the
\* last spawned archetype at p has just made of the registry before it.
JustSpawnedAt == {p \in SpawnPoints : spawn_op.ret >= 0 /\ m_registry = spawn(m_config, before, spawn_op.name, p[1], p[2]).w}
\* The component kinds the weapon system gives a projectile.
ProjectileKinds == {"Position", "Velocity", "Lifetime", "Damage", "Hitbox", "Collider", "Faction", "Piercing"}

\* C36: after any sequence of Engine::spawn and Engine::update calls, every
\* index at which a component store holds a value is the index of an alive
\* entity, and an entity created on a reused index starts with none of the
\* components of the previous occupant: an entity spawned on it is the one the
\* same call creates in an empty registry, and a projectile fired onto it
\* carries the components of a projectile only.
C36_StoresHoldOnlyAlive ==
    /\ \A i \in 0 .. Len(m_registry.ent) - 1 :
          ~m_registry.alive[i + 1] => Ent(m_registry, i).has = {}
    /\ \A p \in JustSpawnedAt :
          Ent(m_registry, spawn_op.ret) = Ent(spawn(m_config, EmptyRegistry, spawn_op.name, p[1], p[2]).w, 0)
    /\ JustSpawnedAt = {} =>
          \A n \in 1 .. Len(trace.shots) :
              m_registry.alive[trace.shots[n].proj + 1] =>
                  Ent(m_registry, trace.shots[n].proj).has \subseteq ProjectileKinds

\* An entity has just been spawned on the index of a destroyed entity.
C36_Witness ==
    /\ updates > 0
    /\ JustSpawnedAt # {}
    /\ spawn_op.ret < Len(before.alive)
    /\ ~before.alive[spawn_op.ret + 1]
    /\ m_registry.alive[spawn_op.ret + 1]
    /\ Ent(m_registry, spawn_op.ret).has # {}

\* C37: an Engine::spawn call that raises, for an archetype that is not in
\* the configuration or for one whose weapon is not, leaves the registry as
\* it was: no entity is alive and no component is held that was not before
\* the call.
C37_FailedSpawnChangesNothing ==
    [][spawn_op'.raised # "none" => m_registry' = m_registry]_vars

\* C38: while the weapon system spawns a projectile, no reference obtained
\* earlier into a component store is used after that store has grown: the
\* shooter's Position, read through such a reference when the projectile's
\* Position is emplaced, is never read after the Position store has grown to
\* cover the projectile's index.
C38_NoStaleReferenceUsed ==
    updates > 0 => \A n \in 1 .. Len(trace.shots) : ~trace.shots[n].stale

\* ---------------------------------------------------------------------------
\* One armed entity firing over several updates.
\* ---------------------------------------------------------------------------

\* Configurations in which the player carries a weapon of rate 1 or of rate 0.
CoolConfigs == {[c EXCEPT !.archetypes.player.weaponName = wn] : c \in Configs, wn \in {"Gun", "Blaster"}}

\* What the game code writes before an update: nothing, or a press and a
\* release in the same tick.
CoolCommands == {c \in Commands : c.moveX = 0 /\ c.firePressed = c.fireReleased} \cup {InputState(0, 0, FALSE)}

\* The history of a weapon that has not fired: since and gap are -1.
NeverFired(rate) == [rate |-> rate, since |-> 0 - 1, gap |-> 0 - 1, fired |-> 0]

\* Engine(config) followed by spawn("player", 0, 0).
CoolInit ==
    /\ _data = <<>>
    /\ sa_op = NoOp
    /\ ub = FALSE
    /\ RegInit
    /\ SysInit
    /\ ZipIdle
    /\ m_config \in CoolConfigs
    /\ m_registry = spawn(m_config, EmptyRegistry, "player", 0, 0).w
    /\ m_dt = 0
    /\ updates = 0
    /\ before = EmptyRegistry
    /\ trace = NoTrace
    /\ spawn_op = NoSpawn
    /\ ChargeIdle
    /\ NetIdle
    /\ WorldIdle
    /\ cooling = <<NeverFired(m_config.weapons[m_config.archetypes.player.weaponName].rate)>>

\* The game code writes the InputState of the player.
CoolInput(in) ==
    /\ updates < MaxTicks
    /\ controlled(m_registry) # no_index
    /\ Ent(m_registry, controlled(m_registry)).InputState # in
    /\ m_registry' = Put(m_registry, controlled(m_registry), "InputState", in)
    /\ UNCHANGED <<coolVars, chargeVars, netVars, worldVars, m_config, m_dt, updates, before, trace, spawn_op, ub, storeVars, regVars, sysVars, zipVars>>

\* The number of projectiles entity i fired in the shots of one update.
shots_of(shots, i) == Cardinality({n \in 1 .. Len(shots) : shots[n].shooter = i})

\* The history after an update of step dt with these shots: a weapon that
\* fired records the time since its previous shot as its gap.
cooled(h, shots, i, dt) ==
    IF shots_of(shots, i) > 0
    THEN [h EXCEPT !.gap = IF h.since < 0 THEN h.gap ELSE h.since + dt, !.since = 0, !.fired = @ + shots_of(shots, i)]
    ELSE [h EXCEPT !.since = IF @ < 0 THEN @ ELSE @ + dt]

\* Engine::update(dt), with the history kept.
CoolUpdate(dt, read) ==
    /\ updates < MaxTicks
    /\ \E w \in {update(m_config, [alive |-> m_registry.alive, free |-> m_registry.free, ent |-> m_registry.ent, log |-> <<>>, hits |-> <<>>, shots |-> <<>>, heap |-> <<>>], dt, read)} :
          /\ m_registry' = registry_of(w)
          /\ trace' = trace_of(w)
          /\ cooling' = [i \in DOMAIN cooling |-> cooled(cooling[i], w.shots, i - 1, dt)]
    /\ m_dt' = dt
    /\ updates' = updates + 1
    /\ before' = m_registry
    /\ UNCHANGED <<chargeVars, netVars, worldVars, m_config, spawn_op, ub, storeVars, regVars, sysVars, zipVars>>

CoolNext ==
    \/ \E in \in CoolCommands : CoolInput(in)
    \/ \E dt \in Steps, read \in DanglingReads : CoolUpdate(dt, read)

SpecCool == CoolInit /\ [][CoolNext]_vars

\* C39: between two consecutive shots of one weapon, the steps of the
\* updates after the first shot up to and including the update of the second
\* add up to at least 1/rate; a weapon fires at most one projectile per
\* update; a weapon of rate zero fires at most once.
C39_CooldownBetweenShots ==
    \A i \in DOMAIN cooling :
        /\ (cooling[i].gap >= 0 /\ cooling[i].rate > 0) => cooling[i].gap * cooling[i].rate >= 1
        /\ shots_of(trace.shots, i - 1) <= 1
        /\ cooling[i].rate = 0 => cooling[i].fired <= 1

\* A weapon of rate 1 has fired a second time, one time unit after its
\* first shot, after an update of step zero in which it was asked to fire.
C39_Witness ==
    /\ Len(cooling) > 0
    /\ cooling[1].rate > 0
    /\ cooling[1].fired >= 2
    /\ cooling[1].gap = 1
    /\ updates >= 3

\* ---------------------------------------------------------------------------
\* The World driven with handles its caller made up.
\* ---------------------------------------------------------------------------

\* The handles the caller builds itself from a raw id, with generation 0.
ForgedHandles == {[id |-> i, generation |-> 0] : i \in 0 .. m_maxEntities - 1}

ForgeNext ==
    \/ \E a \in WorldSpawnNames, p \in WorldSpawnPoints : WorldSpawn(a, p)
    \/ \E e \in issued \union ForgedHandles : WorldDestroy(e)
    \/ WorldPollEvent

SpecForge == Init /\ [][ForgeNext]_vars

====
